---------------------------- MODULE Spec2Model ----------------------------
(***************************************************************************)
(* A model of the three-phase compiler: the regex tokenizer (lexer.py),    *)
(* the recursive-descent parser with error recovery (parser.py), the       *)
(* scoped symbol table and semantic analyzer (semantic_analyzer.py), the   *)
(* three-address IR generator (ir_generator.py), the constant folder       *)
(* (optimizer.py), the x86 code generator (code_generator.py) and the      *)
(* driver run_pipeline (compiler.py).                                      *)
(*                                                                         *)
(* Python values are modelled as follows.  A str is a TLA+ string; a       *)
(* source text is the sequence of its characters.  An object is a record   *)
(* holding its attributes plus, for AST nodes, cls = its class name, so    *)
(* that reading an attribute the object lacks is visible as a missing      *)
(* record field.  A raised exception is the exception's class name in an   *)
(* exc field, "none" when nothing was raised.                              *)
(***************************************************************************)
EXTENDS Integers, Sequences, FiniteSets, TLC

VARIABLES
    tokens,      \* Parser.tokens
    pos,         \* Parser.pos
    errors,      \* Parser.errors
    pstack,      \* the active calls of program / block / if_statement
    pmode,       \* the parser's position: loop, stmt, ret, done, raised
    retval,      \* the node a statement() call is returning
    ast,         \* what Parser.parse returned
    sem,         \* the SemanticAnalyzer run on ast
    scopes,      \* SymbolTable.scopes
    sym_op,      \* the last SymbolTable operation and its outcome
    source,      \* run_pipeline's source_code
    pipe,        \* run_pipeline's locals and its position
    irgen,       \* the IRGenerator run on ast
    opt,         \* an Optimizer and what its optimize calls returned
    cg           \* a CodeGenerator inside generate

vars == <<tokens, pos, errors, pstack, pmode, retval, ast, sem,
          scopes, sym_op, source, pipe, irgen, opt, cg>>

parserVars == <<tokens, pos, errors, pstack, pmode, retval, ast>>
symVars == <<scopes, sym_op>>
pipeVars == <<source, pipe>>
backVars == <<irgen, opt, cg>>

(***************************************************************************)
(* Bounds of the model.                                                    *)
(***************************************************************************)
MaxTokens == 3      \* longest enumerated token sequence, EOF not counted
MaxSrcLen == 2      \* longest enumerated source text, in characters
MaxDepth == 3       \* deepest scope stack the symbol table is driven to
MaxIRLen == 2       \* longest enumerated IR sequence, in instructions
MaxCalls == 2       \* most calls of optimize() on one Optimizer
MaxStatements == 3  \* most statements of a program handed to analyze directly

(***************************************************************************)
(* Python's None, as an object of its own class.                           *)
(***************************************************************************)
None == [cls |-> "NoneType"]

\* A str argument left at its default None (eat's token_value).
NoValue == "<None>"

----------------------------------------------------------------------------
(***************************************************************************)
(* lexer.py                                                                *)
(***************************************************************************)
KEYWORDS == {"if", "else", "int", "float"}

IsDigit(c) == c \in {"0", "1", "2", "3", "4", "5", "6", "7", "8", "9"}

IsWordStart(c) ==
    c \in {"a", "b", "c", "d", "e", "f", "g", "h", "i", "j", "k", "l", "m",
           "n", "o", "p", "q", "r", "s", "t", "u", "v", "w", "x", "y", "z",
           "A", "B", "C", "X", "Y", "Z", "_"}

IsWord(c) == IsWordStart(c) \/ IsDigit(c)

Token(type, value, line) == [type |-> type, value |-> value, line |-> line]

\* The text code[i..j] as a str.
RECURSIVE Text(_, _, _)
Text(code, i, j) == IF i > j THEN "" ELSE code[i] \o Text(code, i + 1, j)

\* The number of characters from index i on that satisfy \d / \w.
RECURSIVE DigitRun(_, _)
DigitRun(code, i) ==
    IF i <= Len(code) /\ IsDigit(code[i]) THEN 1 + DigitRun(code, i + 1) ELSE 0

RECURSIVE WordRun(_, _)
WordRun(code, i) ==
    IF i <= Len(code) /\ IsWord(code[i]) THEN 1 + WordRun(code, i + 1) ELSE 0

RECURSIVE BlankRun(_, _)
BlankRun(code, i) ==
    IF i <= Len(code) /\ code[i] \in {" ", "\t"}
    THEN 1 + BlankRun(code, i + 1) ELSE 0

At(code, i) == IF i <= Len(code) THEN code[i] ELSE ""

(***************************************************************************)
(* TOKEN_SPECIFICATION: the first alternative of the master regex that     *)
(* matches at index i, with the length of its match.  The alternatives     *)
(* are tried in the order of the list; MISMATCH matches any character      *)
(* but a line break, which NEWLINE has taken before it.  The second        *)
(* alternative of SKIP, //.*, never matches: a '/' is an OP_ARITH first.   *)
(***************************************************************************)
TokenMatch(code, i) ==
    LET c == code[i]
        d == At(code, i + 1)
        n == DigitRun(code, i)
        frac == IF At(code, i + n) = "." THEN DigitRun(code, i + n + 1) ELSE 0
    IN  IF IsDigit(c)
        THEN [kind |-> "NUMBER", len |-> IF frac > 0 THEN n + 1 + frac ELSE n]
        ELSE IF IsWordStart(c)
        THEN [kind |-> "ID", len |-> WordRun(code, i)]
        ELSE IF c \in {"=", "!", "<", ">"} /\ d = "="
        THEN [kind |-> "OP_REL", len |-> 2]
        ELSE IF c \in {"<", ">"}
        THEN [kind |-> "OP_REL", len |-> 1]
        ELSE IF c = "="
        THEN [kind |-> "OP_ASSIGN", len |-> 1]
        ELSE IF c \in {"+", "-", "*", "/"}
        THEN [kind |-> "OP_ARITH", len |-> 1]
        ELSE IF c \in {"(", ")", "{", "}", ";", ","}
        THEN [kind |-> "DELIM", len |-> 1]
        ELSE IF c = "\n"
        THEN [kind |-> "NEWLINE", len |-> 1]
        ELSE IF c \in {" ", "\t"}
        THEN [kind |-> "SKIP", len |-> BlankRun(code, i)]
        ELSE [kind |-> "MISMATCH", len |-> 1]

LexError(value, line) ==
    [msg |-> "Lexical Error: Unexpected character", value |-> value,
     line |-> line]

\* One iteration of the loop of tokenize over token_regex.finditer(code):
\* acc holds the place of the next match, tokens, errors and line_num.
ScanStep(code, acc) ==
    LET mo == TokenMatch(code, acc.i)
        kind == mo.kind
        value == Text(code, acc.i, acc.i + mo.len - 1)
        next == [acc EXCEPT !.i = @ + mo.len]
    IN  IF kind = "ID" /\ value \in KEYWORDS
        THEN [next EXCEPT !.tokens = Append(@, Token("KEYWORD", value, acc.line_num))]
        ELSE IF kind \in {"NUMBER", "ID", "OP_REL", "OP_ASSIGN", "OP_ARITH",
                          "DELIM"}
        THEN [next EXCEPT !.tokens = Append(@, Token(kind, value, acc.line_num))]
        ELSE IF kind = "NEWLINE"
        THEN [next EXCEPT !.line_num = @ + 1]
        ELSE IF kind = "SKIP"
        THEN next
        ELSE [next EXCEPT !.errors = Append(@, LexError(value, acc.line_num))]

RECURSIVE Scan(_, _)
Scan(code, acc) ==
    IF acc.i > Len(code) THEN acc ELSE Scan(code, ScanStep(code, acc))

\* Returns tokens, with the EOF token added, and errors.
tokenize(code) ==
    LET acc == Scan(code, [i |-> 1, tokens |-> <<>>, errors |-> <<>>,
                           line_num |-> 1])
    IN  [tokens |-> Append(acc.tokens, Token("EOF", "EOF", acc.line_num)),
         errors |-> acc.errors]

----------------------------------------------------------------------------
(***************************************************************************)
(* parser.py: the AST node classes.                                        *)
(***************************************************************************)
BinOp(left, op, right) ==
    [cls |-> "BinOp", left |-> left, op |-> op, right |-> right]

Number(token) == [cls |-> "Number", token |-> token, value |-> token.value]

Variable(token) == [cls |-> "Variable", token |-> token, value |-> token.value]

Assign(left, op, right) ==
    [cls |-> "Assign", left |-> left, op |-> op, right |-> right]

VarDecl(type_node, var_node, assign_node) ==
    [cls |-> "VarDecl", type_node |-> type_node, var_node |-> var_node,
     assign_node |-> assign_node]

Type(token) == [cls |-> "Type", token |-> token, value |-> token.value]

If(condition, if_block, else_block) ==
    [cls |-> "If", condition |-> condition, if_block |-> if_block,
     else_block |-> else_block]

Block(statements) == [cls |-> "Block", statements |-> statements]

Program(children) == [cls |-> "Program", children |-> children]

\* ParseError(message, line, suggestion); found is the token the message
\* quotes, expected what eat was asked for.
ParseError(message, found, line, suggestion) ==
    [msg |-> message, found |-> found, line |-> line,
     suggestion |-> suggestion]

(***************************************************************************)
(* The name Token is used by type_specifier and primary to build their     *)
(* placeholder nodes, but parser.py neither defines nor imports it:        *)
(* evaluating Token(...) there raises NameError.                           *)
(***************************************************************************)
ParserTokenName == "NameError"

(***************************************************************************)
(* The parser's mutable fields as a record p = [pos, errors, exc], for     *)
(* the methods that are modelled as operators.  current_token is always    *)
(* tokens[pos], or the last token once pos has run past the end.           *)
(***************************************************************************)
Cur(toks, position) ==
    IF position < Len(toks) THEN toks[position + 1] ELSE toks[Len(toks)]

Raise(p, exception) == [p EXCEPT !.exc = exception]

Record(p, err) == [p EXCEPT !.errors = Append(@, err)]

advance(toks, p) == [p EXCEPT !.pos = @ + 1]

\* Parser.error: record, then skip to a statement boundary and eat a ';'.
RECURSIVE SkipToBoundary(_, _)
SkipToBoundary(toks, p) ==
    IF Cur(toks, p.pos).type # "EOF" /\ Cur(toks, p.pos).value \notin {";", "}", ")"}
    THEN SkipToBoundary(toks, advance(toks, p))
    ELSE p

error(toks, p, message, suggestion) ==
    LET tok == Cur(toks, p.pos)
        p1 == Record(p, ParseError(message, tok, tok.line, suggestion))
        p2 == SkipToBoundary(toks, p1)
    IN  IF Cur(toks, p2.pos).value = ";" THEN advance(toks, p2) ELSE p2

eat(toks, p, token_type, token_value) ==
    LET tok == Cur(toks, p.pos)
    IN  IF tok.type = token_type
           /\ (token_value = NoValue \/ tok.value = token_value)
        THEN advance(toks, p)
        ELSE LET p1 == Record(p, ParseError("Expected, but found", tok,
                                            tok.line, NoValue))
             IN  IF tok.type # "EOF" THEN advance(toks, p1) ELSE p1

\* What a method returns together with the parser it leaves behind.
R(p, node) == [p |-> p, node |-> node]

variable(toks, p) ==
    R(eat(toks, p, "ID", NoValue), Variable(Cur(toks, p.pos)))

RelOps == {">", "<", "==", "!=", ">=", "<="}

Ok(r) == r.p.exc = "none"

RECURSIVE expression(_, _)
RECURSIVE comparison_loop(_, _, _)
RECURSIVE term_loop(_, _, _)
RECURSIVE factor_loop(_, _, _)
RECURSIVE primary(_, _)

\* primary, lines 328-329, once the inner expression r is back.
primary_close(toks, r) ==
    IF Ok(r) THEN R(eat(toks, r.p, "DELIM", ")"), r.node) ELSE r

\* primary, lines 332-338: the diagnostic, then the placeholder node.
primary_placeholder(p, token) ==
    IF ParserTokenName = "NameError"
    THEN R(Raise(p, "NameError"), None)
    ELSE R(p, Number(Token("NUMBER", "0", token.line)))

primary(toks, p) ==
    LET token == Cur(toks, p.pos)
    IN  IF token.type = "NUMBER"
        THEN R(eat(toks, p, "NUMBER", NoValue), Number(token))
        ELSE IF token.type = "ID"
        THEN variable(toks, p)
        ELSE IF token.value = "("
        THEN primary_close(toks, expression(toks, eat(toks, p, "DELIM", "(")))
        ELSE primary_placeholder(
                 Record(p, ParseError("Invalid syntax in expression", token,
                                      token.line, NoValue)), token)

\* node = BinOp(left=node, op=op, right=<r>), then the loop goes on.
factor_more(toks, node, op, r) ==
    IF Ok(r) THEN factor_loop(toks, r.p, BinOp(node, op, r.node)) ELSE r

factor_loop(toks, p, node) ==
    IF Cur(toks, p.pos).value \in {"*", "/"}
    THEN factor_more(toks, node, Cur(toks, p.pos),
                     primary(toks, eat(toks, p, "OP", Cur(toks, p.pos).value)))
    ELSE R(p, node)

factor_first(toks, r) == IF Ok(r) THEN factor_loop(toks, r.p, r.node) ELSE r

factor(toks, p) == factor_first(toks, primary(toks, p))

term_more(toks, node, op, r) ==
    IF Ok(r) THEN term_loop(toks, r.p, BinOp(node, op, r.node)) ELSE r

term_loop(toks, p, node) ==
    IF Cur(toks, p.pos).value \in {"+", "-"}
    THEN term_more(toks, node, Cur(toks, p.pos),
                   factor(toks, eat(toks, p, "OP", Cur(toks, p.pos).value)))
    ELSE R(p, node)

term_first(toks, r) == IF Ok(r) THEN term_loop(toks, r.p, r.node) ELSE r

term(toks, p) == term_first(toks, factor(toks, p))

comparison_more(toks, node, op, r) ==
    IF Ok(r) THEN comparison_loop(toks, r.p, BinOp(node, op, r.node)) ELSE r

comparison_loop(toks, p, node) ==
    IF Cur(toks, p.pos).value \in RelOps
    THEN comparison_more(toks, node, Cur(toks, p.pos),
                         term(toks, eat(toks, p, "OP", Cur(toks, p.pos).value)))
    ELSE R(p, node)

comparison_first(toks, r) ==
    IF Ok(r) THEN comparison_loop(toks, r.p, r.node) ELSE r

comparison(toks, p) == comparison_first(toks, term(toks, p))

\* expression, lines 284-287, once the variable v has been read: op is the
\* current token, and r the right-hand side parsed after eat('OP', '=').
assignment_node(v, op, r) ==
    IF Ok(r) THEN R(r.p, Assign(v.node, op, r.node)) ELSE r

assignment(toks, v) ==
    assignment_node(v, Cur(toks, v.p.pos),
                    expression(toks, eat(toks, v.p, "OP", "=")))

expression(toks, p) ==
    IF Cur(toks, p.pos).type = "ID"
    THEN IF p.pos + 2 > Len(toks)
         THEN R(Raise(p, "IndexError"), None)
         ELSE IF toks[p.pos + 2].value = "="
         THEN assignment(toks, variable(toks, p))
         ELSE comparison(toks, p)
    ELSE comparison(toks, p)

\* type_specifier, lines 173-179: the diagnostic, then the dummy type.
type_placeholder(p, token) ==
    IF ParserTokenName = "NameError"
    THEN R(Raise(p, "NameError"), None)
    ELSE R(p, Type(Token("KEYWORD", "int", token.line)))

type_specifier(toks, p) ==
    LET token == Cur(toks, p.pos)
    IN  IF token.value \in {"int", "float"}
        THEN R(eat(toks, p, "KEYWORD", token.value), Type(token))
        ELSE type_placeholder(
                 Record(p, ParseError("Expected a type specifier", token,
                                      token.line, NoValue)), token)

\* The tokens after which a missing ';' is taken to have been forgotten.
StartsStatement(tok) ==
    tok.type \in {"KEYWORD", "ID"} \/ tok.value \in {"{", "}", "EOF"}

\* declaration, lines 144-162: the ';' that ends a declaration.
declaration_semicolon(toks, p) ==
    LET tok == Cur(toks, p.pos)
    IN  IF tok.value = ";"
        THEN eat(toks, p, "DELIM", ";")
        ELSE IF StartsStatement(tok)
        THEN Record(p, ParseError("Missing ';' after declaration", tok, tok.line,
                                  "Did you forget a ';' at the end of the declaration?"))
        ELSE error(toks, p, "Expected ';' after declaration", NoValue)

RECURSIVE declaration_loop(_, _, _, _)

\* declaration, lines 138-142: the VarDecl is added; ',' continues the loop.
declaration_next(toks, p, type_node, ds) ==
    IF Cur(toks, p.pos).value = ","
    THEN declaration_loop(toks, eat(toks, p, "DELIM", ","), type_node, ds)
    ELSE R(p, ds)

\* declaration, lines 134-138: r is the initialiser parsed after '='.
declaration_init(toks, type_node, declarations, v, op, r) ==
    IF Ok(r)
    THEN declaration_next(toks, r.p, type_node,
             Append(declarations,
                    VarDecl(type_node, v.node, Assign(v.node, op, r.node))))
    ELSE R(r.p, declarations)

\* declaration, lines 131-133: v is the variable just read.
declaration_var(toks, type_node, declarations, v) ==
    IF Cur(toks, v.p.pos).value = "="
    THEN declaration_init(toks, type_node, declarations, v, Cur(toks, v.p.pos),
                          expression(toks, eat(toks, v.p, "OP", "=")))
    ELSE declaration_next(toks, v.p, type_node,
                          Append(declarations, VarDecl(type_node, v.node, None)))

\* declaration, lines 130-142: the loop over the declared names.
declaration_loop(toks, p, type_node, declarations) ==
    IF Cur(toks, p.pos).type = "ID"
    THEN declaration_var(toks, type_node, declarations, variable(toks, p))
    ELSE R(p, declarations)

declaration_end(toks, r) ==
    IF Ok(r) THEN R(declaration_semicolon(toks, r.p), r.node) ELSE r

declaration_names(toks, t) ==
    IF Ok(t) THEN declaration_end(toks, declaration_loop(toks, t.p, t.node, <<>>))
    ELSE R(t.p, <<>>)

\* Returns the list of VarDecl nodes in node.
declaration(toks, p) == declaration_names(toks, type_specifier(toks, p))

\* statement_semicolon with a recovery that skips the token it stopped at.
statement_semicolon_skipping(toks, p) ==
    LET tok == Cur(toks, p.pos)
    IN  IF tok.value = ";"
        THEN eat(toks, p, "DELIM", ";")
        ELSE error(toks, p, "Missing ';' after statement",
                   "Did you forget a ';' at the end of the statement?")

\* statement, lines 192-209: the ';' that ends an expression statement.
statement_semicolon(toks, p) ==
    LET tok == Cur(toks, p.pos)
    IN  IF tok.value = ";"
        THEN eat(toks, p, "DELIM", ";")
        ELSE IF StartsStatement(tok)
        THEN Record(p, ParseError("Missing ';' after statement", tok, tok.line,
                                  "Did you forget a ';' at the end of the statement?"))
        ELSE error(toks, p, "Expected ';' after expression statement", NoValue)

statement_end(toks, r) ==
    IF Ok(r) THEN R(statement_semicolon(toks, r.p), r.node) ELSE r

\* statement, lines 188-211: the expression statement.
expression_statement(toks, p) == statement_end(toks, expression(toks, p))

\* if_statement, lines 220-234: the ')' that closes the condition.
if_close_paren(toks, p) ==
    LET tok == Cur(toks, p.pos)
    IN  IF tok.value = ")"
        THEN eat(toks, p, "DELIM", ")")
        ELSE IF tok.value = "{"
        THEN Record(p, ParseError("Missing ')' after if-condition", tok, tok.line,
                                  "Did you forget a ')' before the '{'?"))
        ELSE error(toks, p, "Expected ')' after if-condition", NoValue)

\* if_statement, lines 237-249: a ';' right after the condition is eaten.
if_stray_semicolon(toks, p) ==
    LET tok == Cur(toks, p.pos)
    IN  IF tok.value = ";"
        THEN eat(toks,
                 Record(p, ParseError("Unexpected ';' after if-condition", tok,
                                      tok.line, "Did you mean to delete this ';'?")),
                 "DELIM", ";")
        ELSE p

if_after_condition(toks, r) ==
    IF Ok(r) THEN R(if_stray_semicolon(toks, if_close_paren(toks, r.p)), r.node)
    ELSE r

\* if_statement, lines 215-249: up to the call of statement() for the
\* if-block; node is the condition.
if_statement_head(toks, p) ==
    if_after_condition(toks,
        expression(toks, eat(toks, eat(toks, p, "KEYWORD", "if"), "DELIM", "(")))

\* block, lines 267-276: the '}' that closes a block.
block_close(toks, p) ==
    LET tok == Cur(toks, p.pos)
    IN  IF tok.value = "}"
        THEN eat(toks, p, "DELIM", "}")
        ELSE Record(p, ParseError("Missing '}' to close block", tok, tok.line,
                                  NoValue))

\* parse, lines 348-353, after program() has returned.
parse_tail(toks, p) ==
    LET tok == Cur(toks, p.pos)
    IN  IF tok.type # "EOF" /\ p.errors = <<>>
        THEN Record(p, ParseError("Unexpected tokens at end of file.", tok,
                                  tok.line, NoValue))
        ELSE p

----------------------------------------------------------------------------
(***************************************************************************)
(* The parser as a state machine.  The calls of program, block and         *)
(* if_statement that are active are the frames of pstack; pmode tells      *)
(* where the innermost one stands:                                         *)
(*   loop    at the head of the while loop of program() or block()         *)
(*   stmt    statement() has just been called                              *)
(*   ret     statement() is returning retval to its caller                 *)
(*   done    parse() has returned (ast, errors)                            *)
(*   raised  an exception has left parse()                                 *)
(***************************************************************************)
ProgramFrame(children) == [fn |-> "program", children |-> children]

BlockFrame(statements) == [fn |-> "block", statements |-> statements]

IfFrame(condition, if_block, stage) ==
    [fn |-> "if_statement", condition |-> condition, if_block |-> if_block,
     stage |-> stage]

Top == pstack[Len(pstack)]

Pop == SubSeq(pstack, 1, Len(pstack) - 1)

ReplaceTop(frame) == [pstack EXCEPT ![Len(pstack)] = frame]

Self == [pos |-> pos, errors |-> errors, exc |-> "none"]

current_token == Cur(tokens, pos)

\* The parser's fields after a method has run; an exception unwinds parse().
Continue(p, mode, stack, node) ==
    /\ pos' = p.pos
    /\ errors' = p.errors
    /\ IF p.exc # "none"
       THEN /\ pmode' = "raised"
            /\ pstack' = <<>>
            /\ retval' = [cls |-> "Exception", name |-> p.exc]
       ELSE /\ pmode' = mode
            /\ pstack' = stack
            /\ retval' = node
    /\ UNCHANGED <<backVars, tokens, ast, sem, scopes, sym_op, source, pipe>>

Running == pmode \in {"loop", "stmt", "ret"}

\* program(), line 119: the loop ends at EOF; parse() returns.
ProgramExit ==
    /\ pmode = "loop" /\ Top.fn = "program"
    /\ current_token.type = "EOF"
    /\ LET p == parse_tail(tokens, Self)
       IN  /\ errors' = p.errors
           /\ ast' = Program(Top.children)
    /\ pmode' = "done"
    /\ pstack' = <<>>
    /\ UNCHANGED <<backVars, tokens, pos, retval, sem, scopes, sym_op, source, pipe>>

\* program(), lines 120-121.
ProgramDeclaration ==
    /\ pmode = "loop" /\ Top.fn = "program"
    /\ current_token.type # "EOF"
    /\ current_token.value \in {"int", "float"}
    /\ LET r == declaration(tokens, Self)
       IN  Continue(r.p, "loop",
                    ReplaceTop(ProgramFrame(Top.children \o r.node)), None)

\* program(), lines 122-123: statement() is called.
ProgramStatement ==
    /\ pmode = "loop" /\ Top.fn = "program"
    /\ current_token.type # "EOF"
    /\ current_token.value \notin {"int", "float"}
    /\ pmode' = "stmt"
    /\ UNCHANGED <<backVars, tokens, pos, errors, pstack, retval, ast, sem, scopes, sym_op,
                   source, pipe>>

\* block(), lines 265-266: statement() is called.
BlockStatement ==
    /\ pmode = "loop" /\ Top.fn = "block"
    /\ current_token.value # "}" /\ current_token.type # "EOF"
    /\ pmode' = "stmt"
    /\ UNCHANGED <<backVars, tokens, pos, errors, pstack, retval, ast, sem, scopes, sym_op,
                   source, pipe>>

\* block(), lines 267-277: the loop has ended; block() returns its node.
BlockClose ==
    /\ pmode = "loop" /\ Top.fn = "block"
    /\ ~(current_token.value # "}" /\ current_token.type # "EOF")
    /\ Continue(block_close(tokens, Self), "ret", Pop, Block(Top.statements))

\* statement(), lines 184-185, and if_statement() up to its if-block.
IfStatement ==
    /\ pmode = "stmt"
    /\ current_token.value = "if"
    /\ LET r == if_statement_head(tokens, Self)
       IN  Continue(r.p, "stmt",
                    Append(pstack, IfFrame(r.node, None, "if_block")), None)

\* statement(), lines 186-187, and block(), lines 263-264.
BlockOpen ==
    /\ pmode = "stmt"
    /\ current_token.value # "if"
    /\ current_token.value = "{"
    /\ Continue(eat(tokens, Self, "DELIM", "{"), "loop",
                Append(pstack, BlockFrame(<<>>)), None)

\* statement(), lines 188-211.
ExpressionStatement ==
    /\ pmode = "stmt"
    /\ current_token.value \notin {"if", "{"}
    /\ LET r == expression_statement(tokens, Self)
       IN  Continue(r.p, "ret", pstack, r.node)

\* program(), line 123: node.children.append(self.statement()).
ReturnToProgram ==
    /\ pmode = "ret" /\ Top.fn = "program"
    /\ Continue(Self, "loop",
                ReplaceTop(ProgramFrame(Append(Top.children, retval))), None)

\* block(), line 266: node.statements.append(self.statement()).
ReturnToBlock ==
    /\ pmode = "ret" /\ Top.fn = "block"
    /\ Continue(Self, "loop",
                ReplaceTop(BlockFrame(Append(Top.statements, retval))), None)

\* if_statement(), lines 250-257: the if-block is back and 'else' follows.
IfElse ==
    /\ pmode = "ret" /\ Top.fn = "if_statement" /\ Top.stage = "if_block"
    /\ current_token.value = "else"
    /\ Continue(eat(tokens, Self, "KEYWORD", "else"), "stmt",
                ReplaceTop(IfFrame(Top.condition, retval, "else_block")), None)

\* if_statement(), lines 254-259: no 'else'; if_statement() returns.
IfReturn ==
    /\ pmode = "ret" /\ Top.fn = "if_statement" /\ Top.stage = "if_block"
    /\ current_token.value # "else"
    /\ Continue(Self, "ret", Pop, If(Top.condition, retval, None))

\* if_statement(), lines 257-259: the else-block is back.
IfElseReturn ==
    /\ pmode = "ret" /\ Top.fn = "if_statement" /\ Top.stage = "else_block"
    /\ Continue(Self, "ret", Pop, If(Top.condition, Top.if_block, retval))

ParserStep ==
    \/ ProgramExit
    \/ ProgramDeclaration
    \/ ProgramStatement
    \/ BlockStatement
    \/ BlockClose
    \/ IfStatement
    \/ BlockOpen
    \/ ExpressionStatement
    \/ ReturnToProgram
    \/ ReturnToBlock
    \/ IfElse
    \/ IfReturn
    \/ IfElseReturn

\* Parser.__init__ and the entry of parse() and program().
ParserStart(toks) ==
    /\ tokens = toks
    /\ pos = 0
    /\ errors = <<>>
    /\ pstack = <<ProgramFrame(<<>>)>>
    /\ pmode = "loop"
    /\ retval = None
    /\ ast = None

----------------------------------------------------------------------------
(***************************************************************************)
(* semantic_analyzer.py: SymbolTable.  scopes is the list of dicts, the    *)
(* innermost scope last; a dict is a function from its keys.               *)
(***************************************************************************)
EmptyDict == <<>>

SemanticError(message, line, detail) ==
    [cls |-> "SemanticError", msg |-> message, line |-> line,
     detail |-> detail]

NoError == [cls |-> "NoneType"]

\* What a SymbolTable method leaves: the scopes, the exception raised if
\* any, and the value returned.
SymResult(sc, exception, value) ==
    [scopes |-> sc, exc |-> exception, value |-> value]

enter_scope(sc) == Append(sc, EmptyDict)

exit_scope_unguarded(sc) == SubSeq(sc, 1, Len(sc) - 1)

exit_scope(sc) == IF Len(sc) > 1 THEN SubSeq(sc, 1, Len(sc) - 1) ELSE sc

declare_duplicate_anywhere(sc, name, type, line) ==
    IF \E i \in 1..Len(sc) : name \in DOMAIN sc[i]
    THEN SymResult(sc, SemanticError("already declared in this scope", line,
                                     <<name>>), "None")
    ELSE SymResult([sc EXCEPT ![Len(sc)] = (name :> type) @@ @], NoError, "None")

declare(sc, name, type, line) ==
    LET scope == sc[Len(sc)]
    IN  IF name \in DOMAIN scope
        THEN SymResult(sc, SemanticError("already declared in this scope", line,
                                         <<name>>), "None")
        ELSE SymResult([sc EXCEPT ![Len(sc)] = (name :> type) @@ scope],
                       NoError, "None")

\* The innermost scope that holds name, 0 when none does.
RECURSIVE FindScope(_, _, _)
FindScope(sc, name, i) ==
    IF i = 0 THEN 0
    ELSE IF name \in DOMAIN sc[i] THEN i
    ELSE FindScope(sc, name, i - 1)

lookup(sc, name, line) ==
    LET i == FindScope(sc, name, Len(sc))
    IN  IF i > 0 THEN SymResult(sc, NoError, sc[i][name])
        ELSE SymResult(sc, SemanticError("not declared", line, <<name>>), "None")

(***************************************************************************)
(* semantic_analyzer.py: SemanticAnalyzer.  st = [scopes, exc] is the      *)
(* analyzer's symbol table and the exception in flight: NoError, a         *)
(* SemanticError, or an exception of another class such as the             *)
(* AttributeError of reading an attribute the node does not have.          *)
(***************************************************************************)
HasAttr(obj, attr) == attr \in DOMAIN obj

OtherError(name, detail) == [cls |-> name, detail |-> detail]

AttributeError(obj, attr) == OtherError("AttributeError", <<obj.cls, attr>>)

V(st, type) == [st |-> st, type |-> type]

Throw(st, exception) == V([st EXCEPT !.exc = exception], "None")

Failed(r) == r.st.exc # NoError

\* The texts of number literals that contain a '.', for '.' in node.value.
MaxNumLen == 3

NumberChars == {"0", "1", "2", "3", "4", "5", "6", "7", "8", "9", "."}

TextsWithDot ==
    {Text(cs, 1, Len(cs)) :
        cs \in {c \in UNION {[1..n -> NumberChars] : n \in 1..MaxNumLen} :
                    \E i \in 1..Len(c) : c[i] = "."}}

RECURSIVE visit(_, _)
RECURSIVE visit_statements(_, _, _)

visit_statements_resuming(list, i, st) ==
    IF i > Len(list) THEN V(st, "void")
    ELSE visit_statements(list, i + 1, visit(list[i], st).st)

\* for statement in <list>: self.visit(statement)
visit_statements(list, i, st) ==
    IF i > Len(list) THEN V(st, "void")
    ELSE LET r == visit(list[i], st)
         IN  IF Failed(r) THEN r ELSE visit_statements(list, i + 1, r.st)

visit_Program(node, st) ==
    IF ~HasAttr(node, "children") THEN Throw(st, AttributeError(node, "children"))
    ELSE visit_statements(node.children, 1, st)

visit_Block(node, st) ==
    LET st1 == [st EXCEPT !.scopes = enter_scope(@)]
    IN  IF ~HasAttr(node, "children")
        THEN Throw(st1, AttributeError(node, "children"))
        ELSE LET r == visit_statements(node.children, 1, st1)
             IN  IF Failed(r) THEN r
                 ELSE V([r.st EXCEPT !.scopes = exit_scope(@)], "void")

TypeMismatch(value_type, var_name, var_type, line) ==
    SemanticError("Cannot assign type to variable of type", line,
                  <<value_type, var_name, var_type>>)

visit_VarDecl(node, st) ==
    IF ~HasAttr(node, "var_name")
    THEN Throw(st, AttributeError(node, "var_name"))
    ELSE IF ~HasAttr(node, "var_type")
    THEN Throw(st, AttributeError(node, "var_type"))
    ELSE LET var_name == node.var_name.value
             var_type == node.var_type.value
             line == node.var_name.line
             d == declare(st.scopes, var_name, var_type, line)
             st1 == [st EXCEPT !.scopes = d.scopes]
         IN  IF d.exc # NoError THEN Throw(st, d.exc)
             ELSE IF ~HasAttr(node, "value")
             THEN Throw(st1, AttributeError(node, "value"))
             ELSE IF node.value # None
             THEN LET r == visit(node.value, st1)
                  IN  IF Failed(r) THEN r
                      ELSE IF var_type # r.type
                      THEN Throw(r.st, TypeMismatch(r.type, var_name,
                                                    var_type, line))
                      ELSE V(r.st, "void")
             ELSE V(st1, "void")

visit_Assign(node, st) ==
    IF ~HasAttr(node, "var_name")
    THEN Throw(st, AttributeError(node, "var_name"))
    ELSE LET var_name == node.var_name.value
             line == node.var_name.line
             l == lookup(st.scopes, var_name, line)
         IN  IF l.exc # NoError THEN Throw(st, l.exc)
             ELSE IF ~HasAttr(node, "value")
             THEN Throw(st, AttributeError(node, "value"))
             ELSE LET r == visit(node.value, st)
                  IN  IF Failed(r) THEN r
                      ELSE IF l.value # r.type
                      THEN Throw(r.st, TypeMismatch(r.type, var_name,
                                                    l.value, line))
                      ELSE V(r.st, "void")

visit_If(node, st) ==
    LET c == visit(node.condition, st)
    IN  IF Failed(c) THEN c
        ELSE IF c.type # "bool"
        THEN IF ~HasAttr(node.condition, "op")
             THEN Throw(c.st, AttributeError(node.condition, "op"))
             ELSE Throw(c.st, SemanticError("If condition must be a boolean expression",
                                            node.condition.op.line, <<c.type>>))
        ELSE LET t == visit(node.if_block, c.st)
             IN  IF Failed(t) THEN t
                 ELSE IF node.else_block # None
                 THEN LET e == visit(node.else_block, t.st)
                      IN  IF Failed(e) THEN e ELSE V(e.st, "void")
                 ELSE V(t.st, "void")

Numeric(type) == type \in {"int", "float"}

visit_BinOp(node, st) ==
    LET l == visit(node.left, st)
        r == visit(node.right, l.st)
    IN  IF Failed(l) THEN l
        ELSE IF Failed(r) THEN r
        ELSE IF ~Numeric(l.type) \/ ~Numeric(r.type)
        THEN Throw(r.st, SemanticError("Arithmetic operation can only be used on numbers",
                                       node.op.line, <<node.op.value, l.type, r.type>>))
        ELSE IF "float" \in {l.type, r.type} THEN V(r.st, "float")
        ELSE V(r.st, "int")

visit_RelOp(node, st) ==
    LET l == visit(node.left, st)
        r == visit(node.right, l.st)
    IN  IF Failed(l) THEN l
        ELSE IF Failed(r) THEN r
        ELSE IF ~Numeric(l.type) \/ ~Numeric(r.type)
        THEN Throw(r.st, SemanticError("Relational operation can only be used on numbers",
                                       node.op.line, <<node.op.value, l.type, r.type>>))
        ELSE V(r.st, "bool")

visit_Number(node, st) ==
    IF node.value \in TextsWithDot THEN V(st, "float") ELSE V(st, "int")

visit_Id(node, st) ==
    IF ~HasAttr(node, "line") THEN Throw(st, AttributeError(node, "line"))
    ELSE LET l == lookup(st.scopes, node.value, node.line)
         IN  IF l.exc # NoError THEN Throw(st, l.exc) ELSE V(st, l.value)

visit(node, st) ==
    IF node = None THEN V(st, "None")
    ELSE IF node.cls = "Program" THEN visit_Program(node, st)
    ELSE IF node.cls = "VarDecl" THEN visit_VarDecl(node, st)
    ELSE IF node.cls = "Assign" THEN visit_Assign(node, st)
    ELSE IF node.cls = "If" THEN visit_If(node, st)
    ELSE IF node.cls = "Block" THEN visit_Block(node, st)
    ELSE IF node.cls = "BinOp" THEN visit_BinOp(node, st)
    ELSE IF node.cls = "RelOp" THEN visit_RelOp(node, st)
    ELSE IF node.cls = "Number" THEN visit_Number(node, st)
    ELSE IF node.cls = "Id" THEN visit_Id(node, st)
    ELSE Throw(st, OtherError("TypeError", <<"Unknown node type", node.cls>>))

\* SemanticAnalyzer() followed by analyze(node, errs): errs is the list the
\* analyzer appends to; a SemanticError is caught and appended, any other
\* exception leaves analyze.
analyze(node, errs) ==
    LET r == visit(node, [scopes |-> <<EmptyDict>>, exc |-> NoError])
    IN  IF r.st.exc = NoError
        THEN [state |-> "returned", errors |-> errs, exc |-> NoError,
              scopes |-> r.st.scopes]
        ELSE IF r.st.exc.cls = "SemanticError"
        THEN [state |-> "returned", errors |-> Append(errs, r.st.exc),
              exc |-> NoError, scopes |-> r.st.scopes]
        ELSE [state |-> "raised", errors |-> errs, exc |-> r.st.exc,
              scopes |-> r.st.scopes]

SemIdle ==
    [state |-> "idle", errors |-> <<>>, exc |-> NoError, scopes |-> <<EmptyDict>>]

\* The analyzer is run on what the parser returned.
Analyze ==
    /\ pmode = "done" /\ sem.state = "idle"
    /\ sem' = analyze(ast, errors)
    /\ errors' = sem'.errors
    /\ UNCHANGED <<backVars, tokens, pos, pstack, pmode, retval, ast, scopes, sym_op,
                   source, pipe>>

----------------------------------------------------------------------------
(***************************************************************************)
(* ir_generator.py: IRGenerator.  st = [ir_code, temp_count, label_count,  *)
(* exc] is the generator's state and the exception in flight.  An IR line  *)
(* is kept as the sequence of its words: the generator's f-strings put one *)
(* space between them and the code generator reads a line with split().    *)
(***************************************************************************)
IRGenerator == [ir_code |-> <<>>, temp_count |-> 0, label_count |-> 0,
                exc |-> NoError]

IRV(st, value) == [st |-> st, value |-> value]

IRThrow(st, exception) == IRV([st EXCEPT !.exc = exception], NoValue)

\* f"{value}" of a str, or of None
Format(value) == IF value = NoValue THEN "None" ELSE value

new_temp(st) ==
    IRV([st EXCEPT !.temp_count = @ + 1], "t" \o ToString(st.temp_count + 1))

new_label(st) ==
    IRV([st EXCEPT !.label_count = @ + 1], "L" \o ToString(st.label_count + 1))

\* self.ir_code.append(line)
Emit(st, line) == [st EXCEPT !.ir_code = Append(@, line)]

RECURSIVE IRGenerator_visit(_, _)
RECURSIVE IRGenerator_children(_, _, _)

\* for child in node.children: self.visit(child)
IRGenerator_children(list, i, st) ==
    LET Rest(r) ==
            IF Failed(r) THEN r ELSE IRGenerator_children(list, i + 1, r.st)
    IN  IF i > Len(list) THEN IRV(st, NoValue)
        ELSE Rest(IRGenerator_visit(list[i], st))

IRGenerator_visit_Program(node, st) ==
    IF ~HasAttr(node, "children") THEN IRThrow(st, AttributeError(node, "children"))
    ELSE IRGenerator_children(node.children, 1, st)

IRGenerator_visit_Block(node, st) ==
    IF ~HasAttr(node, "children") THEN IRThrow(st, AttributeError(node, "children"))
    ELSE IRGenerator_children(node.children, 1, st)

IRGenerator_visit_VarDecl(node, st) ==
    LET Value(var_name, src) ==
            IF Failed(src) THEN src
            ELSE IRV(Emit(src.st, <<var_name, "=", Format(src.value)>>), NoValue)
        Declared(st1) ==
            IF ~HasAttr(node, "value")
            THEN IRThrow(st1, AttributeError(node, "value"))
            ELSE IF node.value # None
            THEN Value(node.var_name.value, IRGenerator_visit(node.value, st1))
            ELSE IRV(st1, NoValue)
    IN  IF ~HasAttr(node, "var_type")
        THEN IRThrow(st, AttributeError(node, "var_type"))
        ELSE IF ~HasAttr(node, "var_name")
        THEN IRThrow(st, AttributeError(node, "var_name"))
        ELSE Declared(Emit(st, <<"DECLARE", node.var_type.value,
                                 node.var_name.value>>))

IRGenerator_visit_Assign(node, st) ==
    LET Value(var_name, src) ==
            IF Failed(src) THEN src
            ELSE IRV(Emit(src.st, <<var_name, "=", Format(src.value)>>), NoValue)
    IN  IF ~HasAttr(node, "var_name")
        THEN IRThrow(st, AttributeError(node, "var_name"))
        ELSE IF ~HasAttr(node, "value")
        THEN IRThrow(st, AttributeError(node, "value"))
        ELSE Value(node.var_name.value, IRGenerator_visit(node.value, st))

IRGenerator_visit_If(node, st) ==
    LET IfFalse(condition_var, label) ==
            <<"IF_FALSE", Format(condition_var), "GOTO", label>>
        \* self.ir_code.append(f"LABEL {end_label}")
        End(end_label, r) ==
            IF Failed(r) THEN r
            ELSE IRV(Emit(r.st, <<"LABEL", end_label>>), NoValue)
        \* GOTO end_label, LABEL else_label, the else block
        Else(end_label, else_label, r) ==
            IF Failed(r) THEN r
            ELSE End(end_label,
                     IRGenerator_visit(node.else_block,
                         Emit(Emit(r.st, <<"GOTO", end_label>>),
                              <<"LABEL", else_label>>)))
        Then(condition_var, end_label, l) ==
            Else(end_label, l.value,
                 IRGenerator_visit(node.if_block,
                     Emit(l.st, IfFalse(condition_var, l.value))))
        Labels(condition_var, l) ==
            IF node.else_block # None
            THEN Then(condition_var, l.value, new_label(l.st))
            ELSE End(l.value,
                     IRGenerator_visit(node.if_block,
                         Emit(l.st, IfFalse(condition_var, l.value))))
        Condition(c) ==
            IF Failed(c) THEN c ELSE Labels(c.value, new_label(c.st))
    IN  Condition(IRGenerator_visit(node.condition, st))

IRGenerator_visit_BinOp(node, st) ==
    LET Result(left, right, t) ==
            IRV(Emit(t.st, <<t.value, "=", Format(left), node.op.value,
                             Format(right)>>), t.value)
        Right(left, r) ==
            IF Failed(r) THEN r ELSE Result(left, r.value, new_temp(r.st))
        Left(l) ==
            IF Failed(l) THEN l
            ELSE Right(l.value, IRGenerator_visit(node.right, l.st))
    IN  Left(IRGenerator_visit(node.left, st))

IRGenerator_visit_RelOp(node, st) ==
    LET Result(left, right, t) ==
            IRV(Emit(t.st, <<t.value, "=", Format(left), node.op.value,
                             Format(right)>>), t.value)
        Right(left, r) ==
            IF Failed(r) THEN r ELSE Result(left, r.value, new_temp(r.st))
        Left(l) ==
            IF Failed(l) THEN l
            ELSE Right(l.value, IRGenerator_visit(node.right, l.st))
    IN  Left(IRGenerator_visit(node.left, st))

IRGenerator_visit_Number(node, st) == IRV(st, node.value)

IRGenerator_visit_Id(node, st) == IRV(st, node.value)

IRGenerator_visit(node, st) ==
    IF node = None THEN IRV(st, NoValue)
    ELSE IF node.cls = "Program" THEN IRGenerator_visit_Program(node, st)
    ELSE IF node.cls = "VarDecl" THEN IRGenerator_visit_VarDecl(node, st)
    ELSE IF node.cls = "Assign" THEN IRGenerator_visit_Assign(node, st)
    ELSE IF node.cls = "If" THEN IRGenerator_visit_If(node, st)
    ELSE IF node.cls = "Block" THEN IRGenerator_visit_Block(node, st)
    ELSE IF node.cls = "BinOp" THEN IRGenerator_visit_BinOp(node, st)
    ELSE IF node.cls = "RelOp" THEN IRGenerator_visit_RelOp(node, st)
    ELSE IF node.cls = "Number" THEN IRGenerator_visit_Number(node, st)
    ELSE IF node.cls = "Id" THEN IRGenerator_visit_Id(node, st)
    ELSE IRThrow(st, OtherError("TypeError", <<"Unknown node type", node.cls>>))

\* self.generate(node): ir_code starts empty, the counters are those the
\* object holds.
IRGenerator_generate(self, node) ==
    LET r == IRGenerator_visit(node, [self EXCEPT !.ir_code = <<>>,
                                                  !.exc = NoError])
    IN  IF Failed(r)
        THEN [state |-> "raised", ir_code |-> r.st.ir_code, exc |-> r.st.exc,
              temp_count |-> r.st.temp_count,
              label_count |-> r.st.label_count]
        ELSE [state |-> "returned", ir_code |-> r.st.ir_code, exc |-> NoError,
              temp_count |-> r.st.temp_count,
              label_count |-> r.st.label_count]

\* IRGenerator(): nothing generated yet; calls counts the generate calls.
IRIdle ==
    [state |-> "idle", ir_code |-> IRGenerator.ir_code, exc |-> NoError,
     temp_count |-> IRGenerator.temp_count,
     label_count |-> IRGenerator.label_count, calls |-> 0]

\* generate is called, on the same IRGenerator, with what the parser
\* returned.
GenerateIR ==
    /\ pmode = "done" /\ irgen.calls < MaxCalls
    /\ LET self == [ir_code |-> irgen.ir_code, temp_count |-> irgen.temp_count,
                    label_count |-> irgen.label_count, exc |-> NoError]
           r == IRGenerator_generate(self, ast)
       IN  irgen' = [state |-> r.state, ir_code |-> r.ir_code, exc |-> r.exc,
                     temp_count |-> r.temp_count,
                     label_count |-> r.label_count, calls |-> irgen.calls + 1]
    /\ UNCHANGED <<parserVars, sem, symVars, pipeVars, opt, cg>>

----------------------------------------------------------------------------
(***************************************************************************)
(* optimizer.py: Optimizer.  An instruction is the tuple <<op, arg1, arg2, *)
(* result>>; op is a string, an operand is the sequence of its characters  *)
(* (NoOperand for None).  A Python float is kept exactly: nan, an infinity *)
(* with its sign, or the fraction n / d.  The operand texts of the inputs  *)
(* are chosen so that every finite result is a decimal of a few digits,    *)
(* which a double holds to within its shortest round-trip text.            *)
(***************************************************************************)
NoOperand == <<NoValue>>

Num(n, d) == [cls |-> "num", n |-> n, d |-> d]

Inf(sign) == [cls |-> "inf", sign |-> sign]

NaN == [cls |-> "nan"]

DigitChars == <<"0", "1", "2", "3", "4", "5", "6", "7", "8", "9">>

\* float(s) of a str without blanks, '_' or exponent: ok is FALSE where
\* Python raises ValueError.
float(s) ==
    LET signed == Len(s) > 0 /\ s[1] \in {"+", "-"}
        sign == IF signed /\ s[1] = "-" THEN -1 ELSE 1
        body == IF signed THEN Tail(s) ELSE s
        dots == {i \in DOMAIN body : body[i] = "."}
        point == IF dots = {} THEN Len(body) + 1 ELSE CHOOSE i \in dots : TRUE
        ds == SelectSeq(body, IsDigit)
        RECURSIVE Value(_)
        Value(k) ==
            IF k = 0 THEN 0
            ELSE 10 * Value(k - 1) + (CHOOSE v \in 0..9 : DigitChars[v + 1] = ds[k])
        RECURSIVE Pow10(_)
        Pow10(k) == IF k = 0 THEN 1 ELSE 10 * Pow10(k - 1)
    IN  IF body \in {<<"i", "n", "f">>,
                     <<"i", "n", "f", "i", "n", "i", "t", "y">>}
        THEN [ok |-> TRUE, v |-> Inf(sign)]
        ELSE IF body = <<"n", "a", "n">> THEN [ok |-> TRUE, v |-> NaN]
        ELSE IF /\ Len(ds) > 0
                /\ Cardinality(dots) <= 1
                /\ Len(ds) + Cardinality(dots) = Len(body)
        THEN [ok |-> TRUE,
              v |-> Num(sign * Value(Len(ds)), Pow10(Len(body) + 1 - point
                                                     - Cardinality(dots)))]
        ELSE [ok |-> FALSE, v |-> NaN]

is_numeric(s) == IF s = NoOperand THEN FALSE ELSE float(s).ok

\* str(n) of an int
IntText(n) ==
    LET RECURSIVE Digits(_)
        Digits(m) ==
            IF m < 10 THEN <<DigitChars[m + 1]>>
            ELSE Append(Digits(m \div 10), DigitChars[(m % 10) + 1])
    IN  IF n < 0 THEN <<"-">> \o Digits(-n) ELSE Digits(n)

\* str(x) of a finite float that is not integral: the decimal expansion of
\* n / d, which ends after k digits.
FloatText(x) ==
    LET RECURSIVE Places(_, _)
        Places(n, k) == IF n % x.d = 0 THEN k ELSE Places(10 * n, k + 1)
        RECURSIVE Pow10(_)
        Pow10(k) == IF k = 0 THEN 1 ELSE 10 * Pow10(k - 1)
        mag == IF x.n < 0 THEN -x.n ELSE x.n
        k == Places(mag, 0)
        scaled == (mag * Pow10(k)) \div x.d
        whole == IntText(scaled \div Pow10(k))
        frac == IntText(scaled % Pow10(k))
        zeros == [i \in 1..(k - Len(frac)) |-> "0"]
    IN  (IF x.n < 0 THEN <<"-">> ELSE <<>>) \o whole \o <<".">> \o zeros \o frac

\* val1 <op> val2 in float arithmetic; DIV is val1 / val2 if val2 != 0 else 0
Arith(op, a, b) ==
    LET Neg(x) == IF x.cls = "num" THEN Num(-x.n, x.d)
                  ELSE IF x.cls = "inf" THEN Inf(-x.sign) ELSE x
        Sign(x) == IF x.cls = "inf" THEN x.sign
                   ELSE IF x.n < 0 THEN -1 ELSE IF x.n > 0 THEN 1 ELSE 0
        Add(x, y) ==
            IF x.cls = "nan" \/ y.cls = "nan" THEN NaN
            ELSE IF x.cls = "inf" /\ y.cls = "inf"
            THEN (IF x.sign = y.sign THEN x ELSE NaN)
            ELSE IF x.cls = "inf" THEN x
            ELSE IF y.cls = "inf" THEN y
            ELSE Num(x.n * y.d + y.n * x.d, x.d * y.d)
        Mul(x, y) ==
            IF x.cls = "nan" \/ y.cls = "nan" THEN NaN
            ELSE IF x.cls = "inf" \/ y.cls = "inf"
            THEN (IF Sign(x) * Sign(y) = 0 THEN NaN ELSE Inf(Sign(x) * Sign(y)))
            ELSE Num(x.n * y.n, x.d * y.d)
        Inv(y) ==
            IF y.cls = "nan" THEN NaN
            ELSE IF y.cls = "inf" THEN Num(0, 1)
            ELSE IF y.n < 0 THEN Num(-y.d, -y.n) ELSE Num(y.d, y.n)
    IN  IF op = "ADD" THEN Add(a, b)
        ELSE IF op = "SUB" THEN Add(a, Neg(b))
        ELSE IF op = "MUL" THEN Mul(a, b)
        ELSE IF b.cls = "num" /\ b.n = 0 THEN Num(0, 1)
        ELSE IF a.cls = "inf" /\ b.cls = "inf" THEN NaN
        ELSE Mul(a, Inv(b))

\* str(int(new_val) if new_val == int(new_val) else new_val) of a finite
\* new_val
Rendered_with_fraction(new_val) ==
    IF new_val.n % new_val.d = 0
    THEN IntText(new_val.n \div new_val.d) \o <<".", "0">>
    ELSE FloatText(new_val)

Rendered(new_val) ==
    IF new_val.n % new_val.d = 0 THEN IntText(new_val.n \div new_val.d)
    ELSE FloatText(new_val)

\* ('ASSIGN', str(new_val), None, result)
Replacement_keeping_op(op, text, result) == <<op, text, <<"1">>, result>>

Replacement(op, text, result) == <<"ASSIGN", text, NoOperand, result>>

\* The body of constant_folding's loop for one instruction: the instruction
\* appended to optimized_code, or the exception int(new_val) raises.
Folded(ins) ==
    LET op == ins[1]
        arg1 == ins[2]
        arg2 == ins[3]
        result == ins[4]
        Replaced(new_val) ==
            IF new_val.cls = "inf"
            THEN [exc |-> OtherError("OverflowError", <<"infinity">>), ins |-> ins]
            ELSE IF new_val.cls = "nan"
            THEN [exc |-> OtherError("ValueError", <<"NaN">>), ins |-> ins]
            ELSE [exc |-> NoError,
                  ins |-> Replacement(op, Rendered(new_val), result)]
    IN  IF op \in {"ADD", "SUB", "MUL", "DIV"} /\ is_numeric(arg1)
                                               /\ is_numeric(arg2)
        THEN Replaced(Arith(op, float(arg1).v, float(arg2).v))
        ELSE [exc |-> NoError, ins |-> ins]

\* What constant_folding leaves in self.ir_code, and the exception that
\* left it if one did (self.ir_code is then as it was).
constant_folding(ir_code) ==
    LET raising == {i \in DOMAIN ir_code : Folded(ir_code[i]).exc # NoError}
    IN  IF raising = {}
        THEN [exc |-> NoError,
              ir_code |-> [i \in DOMAIN ir_code |-> Folded(ir_code[i]).ins]]
        ELSE [exc |-> Folded(ir_code[CHOOSE i \in raising :
                                         \A j \in raising : i <= j]).exc,
              ir_code |-> ir_code]

\* optimize() on an Optimizer whose self.ir_code is ir_code
optimize(ir_code) == constant_folding(ir_code)

\* Optimizer(ir_code); arg keeps the constructor's argument.
Optimizer(ir_code) ==
    [state |-> "constructed", arg |-> ir_code, ir_code |-> ir_code,
     given |-> <<>>, exc |-> NoError, calls |-> 0]

OptIdle ==
    [state |-> "idle", arg |-> <<>>, ir_code |-> <<>>, given |-> <<>>,
     exc |-> NoError, calls |-> 0]

\* A call of optimize(); given is self.ir_code as the call found it.
Optimize ==
    /\ opt.state \in {"constructed", "returned"}
    /\ opt.calls < MaxCalls
    /\ LET r == optimize(opt.ir_code)
       IN  opt' = [state |-> IF r.exc = NoError THEN "returned" ELSE "raised",
                   arg |-> opt.arg, ir_code |-> r.ir_code,
                   given |-> opt.ir_code, exc |-> r.exc,
                   calls |-> opt.calls + 1]
    /\ UNCHANGED <<parserVars, sem, symVars, pipeVars, irgen, cg>>

----------------------------------------------------------------------------
(***************************************************************************)
(* code_generator.py: CodeGenerator.  self.ir is a list of lines; a line   *)
(* is kept as the sequence of its words, which is what line.split()        *)
(* returns, and its text is those words with one blank between them.  The  *)
(* assembly is the list of the strings the code builds, character for      *)
(* character.  g holds the generator's attributes and, for generate, i     *)
(* (the index of the next line of the main loop), the position state and   *)
(* the exception that left generate.                                       *)
(***************************************************************************)
CodeGenerator(ir) ==
    [ir |-> ir, assembly |-> <<>>, symbol_table |-> EmptyDict,
     current_offset |-> 0, float_labels |-> EmptyDict,
     float_label_count |-> 0, data_section |-> <<"section .data">>,
     text_section |-> <<>>, state |-> "constructed", i |-> 1,
     exc |-> NoError, returned |-> ""]

GenIdle == [CodeGenerator(<<>>) EXCEPT !.state = "idle"]

\* What a method leaves: the generator, and the value returned.
GV(g, value) == [g |-> g, value |-> value]

get_var_offset(g, var_name) ==
    IF var_name \notin DOMAIN g.symbol_table
    THEN GV([g EXCEPT !.current_offset = @ - 4,
                      !.symbol_table =
                          (var_name :> [type |-> "unknown",
                                        offset |-> g.current_offset - 4]) @@ @],
            g.current_offset - 4)
    ELSE GV(g, g.symbol_table[var_name].offset)

get_var_type(g, var_name) ==
    IF var_name \in DOMAIN g.symbol_table THEN g.symbol_table[var_name].type
    ELSE "unknown"

get_float_label(g, float_val) ==
    IF float_val \notin DOMAIN g.float_labels
    THEN LET label == "__float_" \o ToString(g.float_label_count)
         IN  GV([g EXCEPT !.float_labels = (float_val :> label) @@ @,
                          !.float_label_count = @ + 1,
                          !.data_section =
                              Append(@, "    " \o label \o " dd " \o float_val)],
                label)
    ELSE GV(g, g.float_labels[float_val])

\* The words of at most MaxNumLen characters that str.isdigit accepts.
DigitTexts ==
    {Text(cs, 1, Len(cs)) :
        cs \in UNION {[1..n -> NumberChars \ {"."}] : n \in 1..MaxNumLen}}

is_int_literal(val) ==
    val \in DigitTexts \/ val \in {"-" \o d : d \in DigitTexts}

is_float_literal(val) == val \in TextsWithDot

\* The text of a line: its words, one blank between them.
RECURSIVE LineText(_)
LineText(parts) ==
    IF parts = <<>> THEN ""
    ELSE IF Len(parts) = 1 THEN parts[1]
    ELSE parts[1] \o " " \o LineText(Tail(parts))

\* f"[ebp{offset}]"
Ebp(offset) == "[ebp" \o ToString(offset) \o "]"

IndexError == OtherError("IndexError", "list index out of range")

\* generate, lines 50-71: the prologue, then the scan for float literals,
\* which is not inside any try.
PreScanned(g) ==
    LET RECURSIVE Scan_(_, _)
        Scan_(h, k) ==
            IF k > Len(h.ir) THEN h
            ELSE LET parts == h.ir[k]
                 IN  IF parts = <<>> THEN Scan_(h, k + 1)
                     ELSE IF parts[1] = "ASSIGN"
                     THEN IF Len(parts) < 3
                          THEN [h EXCEPT !.state = "raised", !.exc = IndexError]
                          ELSE IF is_float_literal(parts[3])
                          THEN Scan_(get_float_label(h, parts[3]).g, k + 1)
                          ELSE Scan_(h, k + 1)
                     ELSE IF parts[1] \in {"ADD", "SUB", "MUL", "DIV"}
                     THEN IF Len(parts) < 4
                          THEN [h EXCEPT !.state = "raised", !.exc = IndexError]
                          ELSE LET h1 == IF is_float_literal(parts[4])
                                         THEN get_float_label(h, parts[4]).g
                                         ELSE h
                               IN  IF Len(parts) < 5
                                   THEN [h1 EXCEPT !.state = "raised",
                                                   !.exc = IndexError]
                                   ELSE IF is_float_literal(parts[5])
                                   THEN Scan_(get_float_label(h1, parts[5]).g,
                                              k + 1)
                                   ELSE Scan_(h1, k + 1)
                     ELSE Scan_(h, k + 1)
    IN  Scan_([g EXCEPT !.state = "running",
                        !.text_section =
                            <<"section .text", "global _start", "_start:",
                              "    push ebp", "    mov ebp, esp",
                              "    ; --- Begin user code ---">>], 1)

\* What the try block of the main loop leaves for one line: the generator,
\* and the exception raised inside the block if any.
Done(g, lines) ==
    [g |-> [g EXCEPT !.text_section = @ \o lines], exc |-> NoError]

Raised(g, exception) == [g |-> g, exc |-> exception]

Declared(g, parts) ==
    IF Len(parts) < 3 THEN Raised(g, IndexError)
    ELSE LET var_type == parts[2]
             var_name == parts[3]
             offset == g.current_offset - 4
         IN  Done([g EXCEPT !.current_offset = offset,
                            !.symbol_table =
                                (var_name :> [type |-> var_type,
                                              offset |-> offset]) @@ @],
                  <<"    sub esp, 4  ; Allocate space for " \o var_name
                        \o " (type: " \o var_type \o ") at " \o Ebp(offset)>>)

Assigned(g, parts) ==
    LET var_name == parts[2]
        value == parts[3]
    IN  IF Len(parts) < 3 THEN Raised(g, IndexError)
        ELSE IF var_name \notin DOMAIN g.symbol_table
        THEN Raised(g, OtherError("KeyError", "'" \o var_name \o "'"))
        ELSE LET var_info == g.symbol_table[var_name]
                 dst == Ebp(var_info.offset)
                 v == get_var_offset(g, value)
                 l == get_float_label(g, value)
             IN  IF var_info.type = "int"
                 THEN IF is_int_literal(value)
                      THEN Done(g, <<"    mov dword " \o dst \o ", " \o value>>)
                      ELSE Done(v.g, <<"    mov eax, dword " \o Ebp(v.value),
                                       "    mov dword " \o dst \o ", eax">>)
                 ELSE IF var_info.type = "float"
                 THEN IF is_float_literal(value)
                      THEN Done(l.g, <<"    fld dword [" \o l.value \o "]",
                                       "    fstp dword " \o dst>>)
                      ELSE Done(v.g, <<"    fld dword " \o Ebp(v.value),
                                       "    fstp dword " \o dst>>)
                 ELSE Done(g, <<>>)

Computed(g, parts) ==
    LET op == parts[1]
        op_type == parts[2]
        src1 == parts[4]
        src2 == parts[5]
        d == get_var_offset(g, parts[3])
        \* the register loads of the int branch
        i1 == IF is_int_literal(src1) THEN GV(d.g, src1)
              ELSE LET v == get_var_offset(d.g, src1)
                   IN  GV(v.g, "dword " \o Ebp(v.value))
        i2 == IF is_int_literal(src2) THEN GV(i1.g, src2)
              ELSE LET v == get_var_offset(i1.g, src2)
                   IN  GV(v.g, "dword " \o Ebp(v.value))
        \* the FPU loads of the float branch
        f1 == IF is_float_literal(src1)
              THEN LET l == get_float_label(d.g, src1)
                   IN  GV(l.g, "[" \o l.value \o "]")
              ELSE LET v == get_var_offset(d.g, src1) IN GV(v.g, Ebp(v.value))
        f2 == IF is_float_literal(src2)
              THEN LET l == get_float_label(f1.g, src2)
                   IN  GV(l.g, "[" \o l.value \o "]")
              ELSE LET v == get_var_offset(f1.g, src2) IN GV(v.g, Ebp(v.value))
    IN  IF Len(parts) < 5 THEN Raised(g, IndexError)
        ELSE IF op_type = "int"
        THEN Done(i2.g,
                  <<"    mov eax, " \o i1.value, "    mov ebx, " \o i2.value>>
                  \o (IF op = "ADD" THEN <<"    add eax, ebx">>
                      ELSE IF op = "SUB" THEN <<"    sub eax, ebx">>
                      ELSE IF op = "MUL" THEN <<"    imul eax, ebx">>
                      ELSE <<"    cdq", "    idiv ebx">>)
                  \o <<"    mov dword " \o Ebp(d.value) \o ", eax">>)
        ELSE IF op_type = "float"
        THEN Done(f2.g,
                  <<"    fld dword " \o f1.value, "    fld dword " \o f2.value>>
                  \o (IF op = "ADD" THEN <<"    faddp st(1), st(0)">>
                      ELSE IF op = "SUB" THEN <<"    fsubp st(1), st(0)">>
                      ELSE IF op = "MUL" THEN <<"    fmulp st(1), st(0)">>
                      ELSE <<"    fdivp st(1), st(0)">>)
                  \o <<"    fstp dword " \o Ebp(d.value)>>)
        ELSE Done(d.g, <<>>)

Cast(g, parts) ==
    IF Len(parts) < 3 THEN Raised(g, IndexError)
    ELSE LET src == get_var_offset(g, parts[3])
             dest == get_var_offset(src.g, parts[2])
         IN  Done(dest.g, <<"    fild dword " \o Ebp(src.value),
                            "    fstp dword " \o Ebp(dest.value)>>)

Compared(g, parts) ==
    IF Len(parts) < 5 THEN Raised(g, IndexError)
    ELSE LET cmp_type == parts[2]
             src2 == parts[5]
             a == get_var_offset(g, parts[3])
             b == get_var_offset(a.g, src2)
             l == get_float_label(a.g, src2)
         IN  IF cmp_type = "int"
             THEN IF is_int_literal(src2)
                  THEN Done(a.g, <<"    mov eax, dword " \o Ebp(a.value),
                                   "    mov ebx, " \o src2,
                                   "    cmp eax, ebx">>)
                  ELSE Done(b.g, <<"    mov eax, dword " \o Ebp(a.value),
                                   "    mov ebx, dword " \o Ebp(b.value),
                                   "    cmp eax, ebx">>)
             ELSE IF cmp_type = "float"
             THEN IF is_float_literal(src2)
                  THEN Done(l.g, <<"    fld dword " \o Ebp(a.value),
                                   "    fld dword [" \o l.value \o "]",
                                   "    fcomip st(0), st(1)",
                                   "    fstp st(0)">>)
                  ELSE Done(b.g, <<"    fld dword " \o Ebp(a.value),
                                   "    fld dword " \o Ebp(b.value),
                                   "    fcomip st(0), st(1)",
                                   "    fstp st(0)">>)
             ELSE Done(g, <<>>)

Jumped(g, parts) ==
    IF Len(parts) < 2 THEN Raised(g, IndexError)
    ELSE Done(g, <<"    jmp " \o parts[2]>>)

\* prev_line = self.ir[i - 1] for the 0-based i of the loop: the line
\* before, and the last line of the list when the jump is its first line.
PrevIndex(g) == IF g.i = 1 THEN Len(g.ir) ELSE g.i - 1

JumpOp(cmp_type, cmp_op) ==
    IF cmp_type = "int"
    THEN CASE cmp_op = "==" -> "jne" [] cmp_op = "!=" -> "je"
           [] cmp_op = ">" -> "jle" [] cmp_op = ">=" -> "jl"
           [] cmp_op = "<" -> "jge" [] cmp_op = "<=" -> "jg"
           [] OTHER -> ""
    ELSE IF cmp_type = "float"
    THEN CASE cmp_op = "==" -> "jne" [] cmp_op = "!=" -> "je"
           [] cmp_op = ">" -> "jbe" [] cmp_op = ">=" -> "jb"
           [] cmp_op = "<" -> "jae" [] cmp_op = "<=" -> "ja"
           [] OTHER -> ""
    ELSE ""

JumpedIfFalse(g, parts) ==
    LET prev_parts == g.ir[PrevIndex(g)]
    IN  IF Len(prev_parts) < 4 \/ Len(parts) < 2 THEN Raised(g, IndexError)
        ELSE Done(g, <<"    " \o JumpOp(prev_parts[2], prev_parts[4]) \o " "
                         \o parts[2] \o " ; Jump if " \o prev_parts[4]
                         \o " was false">>)

Labelled(g, parts) ==
    IF Len(parts) < 2 THEN Raised(g, IndexError)
    ELSE Done(g, <<parts[2] \o ":">>)

\* One turn of the main loop (lines 74-216) with the try block's outcome r:
\* an exception becomes the error comment, and the loop goes on.
Turn(g, r) ==
    IF r.exc = NoError THEN [r.g EXCEPT !.i = @ + 1]
    ELSE [r.g EXCEPT !.i = @ + 1,
                     !.text_section =
                         Append(@, "\n    ; !!! ERROR GENERATING CODE FOR: '"
                                       \o LineText(g.ir[g.i]) \o "' -> "
                                       \o r.exc.detail \o " !!!\n")]

\* "\n".join(lines)
RECURSIVE Joined(_)
Joined(lines) ==
    IF lines = <<>> THEN ""
    ELSE IF Len(lines) = 1 THEN lines[1]
    ELSE lines[1] \o "\n" \o Joined(Tail(lines))

\* generate, lines 218-231
Finished(g) ==
    LET text == g.text_section
                    \o <<"    ; --- End of user code ---", "    mov esp, ebp",
                         "    pop ebp", "    mov eax, 1", "    xor ebx, ebx",
                         "    int 0x80">>
        all == IF Len(g.data_section) > 1 THEN text \o g.data_section ELSE text
    IN  [g EXCEPT !.text_section = all, !.assembly = all,
                  !.state = "returned", !.returned = Joined(all)]

----------------------------------------------------------------------------
(***************************************************************************)
(* Inputs.  Source texts, as the sequences of their characters.            *)
(***************************************************************************)
\* int a; a = 3; int b; b = a + 2; if (b > 4) { int c; c = 1; } else { int c; c = 0; }
SrcRoundTrip ==
    <<"i", "n", "t", " ", "a", ";", " ", "a", " ", "=", " ", "3", ";", " ",
      "i", "n", "t", " ", "b", ";", " ", "b", " ", "=", " ", "a", " ", "+",
      " ", "2", ";", " ", "i", "f", " ", "(", "b", " ", ">", " ", "4", ")",
      " ", "{", " ", "i", "n", "t", " ", "c", ";", " ", "c", " ", "=", " ",
      "1", ";", " ", "}", " ", "e", "l", "s", "e", " ", "{", " ", "i", "n",
      "t", " ", "c", ";", " ", "c", " ", "=", " ", "0", ";", " ", "}">>

\* int a;
SrcDeclA ==
    <<"i", "n", "t", " ", "a", ";">>

\* int a, b; float c;
SrcDeclAB ==
    <<"i", "n", "t", " ", "a", ",", " ", "b", ";", " ", "f", "l", "o", "a",
      "t", " ", "c", ";">>

\* a = 3;
SrcAssign ==
    <<"a", " ", "=", " ", "3", ";">>

\* b = a + 2;
SrcArith ==
    <<"b", " ", "=", " ", "a", " ", "+", " ", "2", ";">>

\* { int c; }
SrcBlockDecl ==
    <<"{", " ", "i", "n", "t", " ", "c", ";", " ", "}">>

\* if (a > b) { a = 1; } else { b = 2; }
SrcIfElseBlocks ==
    <<"i", "f", " ", "(", "a", " ", ">", " ", "b", ")", " ", "{", " ", "a",
      " ", "=", " ", "1", ";", " ", "}", " ", "e", "l", "s", "e", " ", "{",
      " ", "b", " ", "=", " ", "2", ";", " ", "}">>

\* int a; int b; if (a > b) a = b;
SrcIfCompare ==
    <<"i", "n", "t", " ", "a", ";", " ", "i", "n", "t", " ", "b", ";", " ",
      "i", "f", " ", "(", "a", " ", ">", " ", "b", ")", " ", "a", " ", "=",
      " ", "b", ";">>

\* float a; float b; if (a <= b) a = b;
SrcIfCompareFloat ==
    <<"f", "l", "o", "a", "t", " ", "a", ";", " ", "f", "l", "o", "a", "t",
      " ", "b", ";", " ", "i", "f", " ", "(", "a", " ", "<", "=", " ", "b",
      ")", " ", "a", " ", "=", " ", "b", ";">>

\* int a; float b; a = b;
SrcAssignMismatch ==
    <<"i", "n", "t", " ", "a", ";", " ", "f", "l", "o", "a", "t", " ", "b",
      ";", " ", "a", " ", "=", " ", "b", ";">>

\* float x = 1;
SrcInitMismatch ==
    <<"f", "l", "o", "a", "t", " ", "x", " ", "=", " ", "1", ";">>

\* int x = 1;
SrcInitSame ==
    <<"i", "n", "t", " ", "x", " ", "=", " ", "1", ";">>

\* int a\nint b;
SrcMissingSemiDecl ==
    <<"i", "n", "t", " ", "a", "\n", "i", "n", "t", " ", "b", ";">>

\* a\nb;
SrcMissingSemiStmt ==
    <<"a", "\n", "b", ";">>

\* a\nif (a) b;
SrcMissingSemiKeyword ==
    <<"a", "\n", "i", "f", " ", "(", "a", ")", " ", "b", ";">>

\* int a; a = 3 @ 4;
SrcLexError ==
    <<"i", "n", "t", " ", "a", ";", " ", "a", " ", "=", " ", "3", " ", "@",
      " ", "4", ";">>

\* if (1 > 2) 3; else 4;
SrcIfElseNumbers ==
    <<"i", "f", " ", "(", "1", " ", ">", " ", "2", ")", " ", "3", ";", " ",
      "e", "l", "s", "e", " ", "4", ";">>

\* if (1 > 2) 3;
SrcIfNumbers ==
    <<"i", "f", " ", "(", "1", " ", ">", " ", "2", ")", " ", "3", ";">>

\* if (1) 2; else 3;
SrcIfUncompared ==
    <<"i", "f", " ", "(", "1", ")", " ", "2", ";", " ", "e", "l", "s", "e",
      " ", "3", ";">>

\* int ;
SrcDeclNoName == <<"i", "n", "t", " ", ";">>

\* int a, ;
SrcDeclTrailingComma == <<"i", "n", "t", " ", "a", ",", " ", ";">>

\* if (a) 2;
SrcIfVariable == <<"i", "f", " ", "(", "a", ")", " ", "2", ";">>

\* if (1 + 2) 3;
SrcIfArithmetic ==
    <<"i", "f", " ", "(", "1", " ", "+", " ", "2", ")", " ", "3", ";">>

\* if (1 < 2) if (3 < 4) 5; else 6; else 7;
SrcIfNestedThen ==
    <<"i", "f", " ", "(", "1", " ", "<", " ", "2", ")", " ", "i", "f", " ",
      "(", "3", " ", "<", " ", "4", ")", " ", "5", ";", " ", "e", "l", "s",
      "e", " ", "6", ";", " ", "e", "l", "s", "e", " ", "7", ";">>

\* if (1 > 2) 3; else if (3 > 4) 5; else 6;
SrcIfNestedElse ==
    <<"i", "f", " ", "(", "1", " ", ">", " ", "2", ")", " ", "3", ";", " ",
      "e", "l", "s", "e", " ", "i", "f", " ", "(", "3", " ", ">", " ", "4",
      ")", " ", "5", ";", " ", "e", "l", "s", "e", " ", "6", ";">>

\* if (1 > 2) 3; else 4; if (5 == 6 + 7) 8;
SrcIfTwice ==
    <<"i", "f", " ", "(", "1", " ", ">", " ", "2", ")", " ", "3", ";", " ",
      "e", "l", "s", "e", " ", "4", ";", " ", "i", "f", " ", "(", "5", " ",
      "=", "=", " ", "6", " ", "+", " ", "7", ")", " ", "8", ";">>

\* if (1) { 2; } else { 3; }
SrcIfElseUncomparedBlocks ==
    <<"i", "f", " ", "(", "1", ")", " ", "{", " ", "2", ";", " ", "}", " ",
      "e", "l", "s", "e", " ", "{", " ", "3", ";", " ", "}">>

\* if (1 > 2) { 3; } else { 4; }
SrcIfElseNumberBlocks ==
    <<"i", "f", " ", "(", "1", " ", ">", " ", "2", ")", " ", "{", " ", "3",
      ";", " ", "}", " ", "e", "l", "s", "e", " ", "{", " ", "4", ";", " ",
      "}">>

SampleSources ==
    {SrcRoundTrip, SrcDeclA, SrcDeclAB, SrcAssign, SrcArith, SrcBlockDecl,
     SrcIfElseBlocks, SrcIfCompare, SrcIfCompareFloat, SrcAssignMismatch,
     SrcInitMismatch, SrcInitSame, SrcMissingSemiDecl, SrcMissingSemiStmt,
     SrcMissingSemiKeyword, SrcIfElseNumbers, SrcIfNumbers, SrcIfUncompared,
     SrcIfNestedThen, SrcIfNestedElse, SrcIfTwice, SrcIfElseNumberBlocks,
     SrcIfElseUncomparedBlocks, SrcIfVariable, SrcIfArithmetic,
     SrcDeclNoName, SrcDeclTrailingComma}

\* The tokens the enumerated token sequences are made of, all on line 1.
TokenAlphabet ==
    {Token("KEYWORD", "int", 1), Token("KEYWORD", "if", 1),
     Token("KEYWORD", "else", 1), Token("ID", "a", 1), Token("ID", "b", 1),
     Token("NUMBER", "1", 1), Token("OP_ASSIGN", "=", 1),
     Token("OP_ARITH", "+", 1), Token("OP_REL", ">", 1),
     Token("DELIM", ";", 1), Token("DELIM", ",", 1), Token("DELIM", "(", 1),
     Token("DELIM", ")", 1), Token("DELIM", "{", 1), Token("DELIM", "}", 1)}

\* Every sequence of at most MaxTokens tokens, terminated by one EOF token.
EnumeratedTokens ==
    {ts \o <<Token("EOF", "EOF", 1)>> :
        ts \in UNION {[1..n -> TokenAlphabet] : n \in 0..MaxTokens}}

SampleTokens == {tokenize(src).tokens : src \in SampleSources}

\* The characters the enumerated source texts are made of.
SourceAlphabet == {"a", "1", ";", "=", "+", "@", " ", "\n", "{", "}"}

EnumeratedSources == UNION {[1..n -> SourceAlphabet] : n \in 0..MaxSrcLen}

----------------------------------------------------------------------------
(***************************************************************************)
(* Spec: the parser on a token sequence, then the analyzer on its AST.     *)
(***************************************************************************)
SymIdle ==
    [op |-> "init", name |-> "", type |-> "", exc |-> NoError,
     value |-> "None", before |-> <<EmptyDict>>]

\* run_pipeline's locals before its first stage: pc is its position,
\* invoked the stages called so far, each with all_errors as it stood at
\* the call.  Of results, the texts of the tokens and of the AST are left
\* out.
PipeIdle ==
    [pc |-> "idle", all_errors |-> <<>>, invoked |-> <<>>, success |-> FALSE,
     results |-> [semantic_errors |-> "", ir |-> "", optimized_ir |-> "",
                  final_code |-> "", errors |-> ""]]

\* No back-end stage has been run.
BackIdle ==
    /\ irgen = IRIdle
    /\ opt = OptIdle
    /\ cg = GenIdle

Init ==
    /\ \E toks \in EnumeratedTokens \cup SampleTokens : ParserStart(toks)
    /\ sem = SemIdle
    /\ scopes = <<EmptyDict>>
    /\ sym_op = SymIdle
    /\ source = <<>>
    /\ pipe = PipeIdle
    /\ BackIdle

Next == ParserStep \/ Analyze \/ GenerateIR

Spec == Init /\ [][Next]_vars

----------------------------------------------------------------------------
(***************************************************************************)
(* SpecSym: a SymbolTable driven by any sequence of its operations.        *)
(* sym_op records the last call: its arguments, what it raised or          *)
(* returned, and the scopes as they were before it.                        *)
(***************************************************************************)
Names == {"a", "b"}

Types == {"int", "float"}

SymCall(op, name, type, r) ==
    [op |-> op, name |-> name, type |-> type, exc |-> r.exc,
     value |-> r.value, before |-> scopes]

EnterScope ==
    /\ Len(scopes) < MaxDepth
    /\ scopes' = enter_scope(scopes)
    /\ sym_op' = SymCall("enter_scope", "", "",
                         SymResult(scopes', NoError, "None"))
    /\ UNCHANGED <<backVars, parserVars, sem, pipeVars>>

ExitScope ==
    /\ scopes' = exit_scope(scopes)
    /\ sym_op' = SymCall("exit_scope", "", "",
                         SymResult(scopes', NoError, "None"))
    /\ UNCHANGED <<backVars, parserVars, sem, pipeVars>>

Declare ==
    \E name \in Names, type \in Types :
        LET r == declare(scopes, name, type, 1)
        IN  /\ scopes' = r.scopes
            /\ sym_op' = SymCall("declare", name, type, r)
            /\ UNCHANGED <<backVars, parserVars, sem, pipeVars>>

Lookup ==
    \E name \in Names :
        LET r == lookup(scopes, name, 1)
        IN  /\ scopes' = r.scopes
            /\ sym_op' = SymCall("lookup", name, "", r)
            /\ UNCHANGED <<backVars, parserVars, sem, pipeVars>>

ParserIdle ==
    /\ tokens = <<>>
    /\ pos = 0
    /\ errors = <<>>
    /\ pstack = <<>>
    /\ pmode = "idle"
    /\ retval = None
    /\ ast = None

InitSym ==
    /\ ParserIdle
    /\ sem = SemIdle
    /\ scopes = <<EmptyDict>>
    /\ sym_op = SymIdle
    /\ source = <<>>
    /\ pipe = PipeIdle
    /\ BackIdle

NextSym == EnterScope \/ ExitScope \/ Declare \/ Lookup

SpecSym == InitSym /\ [][NextSym]_vars

----------------------------------------------------------------------------
(***************************************************************************)
(* SpecOpt: an Optimizer built on an IR sequence, its optimize() called    *)
(* up to MaxCalls times.                                                   *)
(***************************************************************************)
\* Operand texts: int literals, a float literal, a variable name, and two
\* names that float() reads as numbers.
OperandTexts ==
    {<<"0">>, <<"2">>, <<"1", "0">>, <<"2", ".", "5">>, <<"a">>,
     <<"i", "n", "f">>, <<"n", "a", "n">>}

\* Every instruction with one of five opcodes over the operand texts.
Instructions ==
    {<<op, arg1, arg2, <<"t", "1">> >> :
        op \in {"ADD", "SUB", "MUL", "DIV", "ASSIGN"},
        arg1 \in OperandTexts, arg2 \in OperandTexts \cup {NoOperand}}

\* The instructions the longer sequences are made of.
IRAlphabet ==
    {<<"ADD", <<"2">>, <<"3">>, <<"t", "1">> >>,
     <<"DIV", <<"1", "0">>, <<"0">>, <<"t", "2">> >>,
     <<"DIV", <<"5">>, <<"2">>, <<"t", "3">> >>,
     <<"MUL", <<"a">>, <<"2">>, <<"t", "4">> >>,
     <<"ASSIGN", <<"5">>, NoOperand, <<"x">> >>,
     <<"SUB", <<"2">>, <<"b">>, <<"a">> >>}

IRSequences ==
    {<<ins>> : ins \in Instructions}
        \cup UNION {[1..n -> IRAlphabet] : n \in 0..MaxIRLen}

InitOpt ==
    /\ ParserIdle
    /\ sem = SemIdle
    /\ scopes = <<EmptyDict>>
    /\ sym_op = SymIdle
    /\ source = <<>>
    /\ pipe = PipeIdle
    /\ irgen = IRIdle
    /\ cg = GenIdle
    /\ \E ir_code \in IRSequences : opt = Optimizer(ir_code)

NextOpt == Optimize

SpecOpt == InitOpt /\ [][NextOpt]_vars

----------------------------------------------------------------------------
(***************************************************************************)
(* SpecGen: a CodeGenerator built on a list of IR lines, and its generate: *)
(* the scan for float literals, one step for each line of the main loop,   *)
(* and the epilogue.                                                       *)
(***************************************************************************)
InLoop == cg.state = "running" /\ cg.i <= Len(cg.ir)

\* parts of the line at hand, and its op
Parts == cg.ir[cg.i]

Op(ops) == InLoop /\ Parts # <<>> /\ Parts[1] \in ops

GenStart ==
    /\ cg.state = "constructed"
    /\ cg' = PreScanned(cg)
    /\ UNCHANGED <<parserVars, sem, symVars, pipeVars, irgen, opt>>

GenBlank ==
    /\ InLoop /\ Parts = <<>>
    /\ cg' = [cg EXCEPT !.i = @ + 1]
    /\ UNCHANGED <<parserVars, sem, symVars, pipeVars, irgen, opt>>

GenDeclare ==
    /\ Op({"DECLARE"})
    /\ cg' = Turn(cg, Declared(cg, Parts))
    /\ UNCHANGED <<parserVars, sem, symVars, pipeVars, irgen, opt>>

GenAssign ==
    /\ Op({"ASSIGN"})
    /\ cg' = Turn(cg, Assigned(cg, Parts))
    /\ UNCHANGED <<parserVars, sem, symVars, pipeVars, irgen, opt>>

GenArithmetic ==
    /\ Op({"ADD", "SUB", "MUL", "DIV"})
    /\ cg' = Turn(cg, Computed(cg, Parts))
    /\ UNCHANGED <<parserVars, sem, symVars, pipeVars, irgen, opt>>

GenCast ==
    /\ Op({"CAST_TO_FLOAT"})
    /\ cg' = Turn(cg, Cast(cg, Parts))
    /\ UNCHANGED <<parserVars, sem, symVars, pipeVars, irgen, opt>>

GenCompare ==
    /\ Op({"COMPARE"})
    /\ cg' = Turn(cg, Compared(cg, Parts))
    /\ UNCHANGED <<parserVars, sem, symVars, pipeVars, irgen, opt>>

GenJump ==
    /\ Op({"JUMP"})
    /\ cg' = Turn(cg, Jumped(cg, Parts))
    /\ UNCHANGED <<parserVars, sem, symVars, pipeVars, irgen, opt>>

GenJumpIfFalse ==
    /\ Op({"JUMP_IF_FALSE"})
    /\ cg' = Turn(cg, JumpedIfFalse(cg, Parts))
    /\ UNCHANGED <<parserVars, sem, symVars, pipeVars, irgen, opt>>

GenLabel ==
    /\ Op({"LABEL"})
    /\ cg' = Turn(cg, Labelled(cg, Parts))
    /\ UNCHANGED <<parserVars, sem, symVars, pipeVars, irgen, opt>>

\* A line whose first word no branch of the loop names emits nothing.
GenOther ==
    /\ InLoop /\ Parts # <<>>
    /\ Parts[1] \notin {"DECLARE", "ASSIGN", "ADD", "SUB", "MUL", "DIV",
                        "CAST_TO_FLOAT", "COMPARE", "JUMP", "JUMP_IF_FALSE",
                        "LABEL"}
    /\ cg' = [cg EXCEPT !.i = @ + 1]
    /\ UNCHANGED <<parserVars, sem, symVars, pipeVars, irgen, opt>>

GenFinish ==
    /\ cg.state = "running" /\ cg.i > Len(cg.ir)
    /\ cg' = Finished(cg)
    /\ UNCHANGED <<parserVars, sem, symVars, pipeVars, irgen, opt>>

\* COMPARE <type> a <op> b, for both types and the six operators
CompareLines ==
    {<<"COMPARE", type, "a", op, "b">> :
        type \in Types, op \in {"==", "!=", "<", ">", "<=", ">="}}

\* The lines the enumerated IR lists are made of.
LineAlphabet ==
    CompareLines
        \cup {<<"DECLARE", "int", "a">>, <<"DECLARE", "float", "a">>,
              <<"DECLARE", "int", "b">>, <<"DECLARE", "int">>,
              <<"ASSIGN", "a", "5">>, <<"ASSIGN", "a", "2.5">>,
              <<"ASSIGN", "a", "b">>, <<"ASSIGN", "x">>,
              <<"ADD", "int", "t1", "a", "5">>,
              <<"DIV", "int", "t1", "-3", "b">>,
              <<"MUL", "float", "t1", "a", "2.5">>,
              <<"SUB", "float", "t1", "1.5", "b">>,
              <<"ADD", "bool", "t1", "a", "b">>, <<"ADD", "int", "t1", "a">>,
              <<"CAST_TO_FLOAT", "t1", "a">>, <<"CAST_TO_FLOAT", "t1">>,
              <<"COMPARE", "int", "a", "<", "5">>,
              <<"COMPARE", "float", "a", "<", "2.5">>,
              <<"COMPARE", "int", "a">>, <<"JUMP", "L1">>, <<"JUMP">>,
              <<"JUMP_IF_FALSE", "L1">>, <<"JUMP_IF_FALSE">>,
              <<"LABEL", "L1">>, <<"LABEL">>, <<"NOP">>, <<>>}

\* int a; float b; a = 5; b = 2.5; if (a < 5) a = b;
IRProgram ==
    <<<<"DECLARE", "int", "a">>, <<"DECLARE", "float", "b">>,
      <<"ASSIGN", "a", "5">>, <<"ASSIGN", "b", "2.5">>,
      <<"COMPARE", "int", "a", "<", "5">>, <<"JUMP_IF_FALSE", "L1">>,
      <<"ASSIGN", "a", "b">>, <<"LABEL", "L1">>>>

IRLists ==
    {IRProgram} \cup UNION {[1..n -> LineAlphabet] : n \in 0..MaxIRLen}

InitGen ==
    /\ ParserIdle
    /\ sem = SemIdle
    /\ scopes = <<EmptyDict>>
    /\ sym_op = SymIdle
    /\ source = <<>>
    /\ pipe = PipeIdle
    /\ irgen = IRIdle
    /\ opt = OptIdle
    /\ \E ir \in IRLists : cg = CodeGenerator(ir)

NextGen ==
    \/ GenStart \/ GenBlank \/ GenDeclare \/ GenAssign \/ GenArithmetic
    \/ GenCast \/ GenCompare \/ GenJump \/ GenJumpIfFalse \/ GenLabel
    \/ GenOther \/ GenFinish

SpecGen == InitGen /\ [][NextGen]_vars

----------------------------------------------------------------------------
(***************************************************************************)
(* compiler.py: run_pipeline.  An entry of all_errors is the text of a     *)
(* diagnostic, kept as its kind (the words the text begins with) and the   *)
(* error it was made of.                                                   *)
(***************************************************************************)
Entry(kind, of) == [kind |-> kind, of |-> of]

RECURSIVE Entries(_, _)
Entries(kind, errs) ==
    IF errs = <<>> THEN <<>>
    ELSE <<Entry(kind, Head(errs))>> \o Entries(kind, Tail(errs))

format_errors(errs, title) ==
    IF errs = <<>> THEN "" ELSE [title |-> title, items |-> errs]

\* results["errors"] = format_errors(all_errors, "COMPILATION FAILED");
\* return results, False
ReturnFailed(p) ==
    [p EXCEPT !.results.errors = format_errors(p.all_errors, "COMPILATION FAILED"),
              !.pc = "returned", !.success = FALSE]

\* An except clause of run_pipeline: the failure is added to all_errors.
StageFailure(p, label, exception) ==
    ReturnFailed([p EXCEPT !.all_errors = Append(@, Entry(label, exception))])

Invoke(p, stage) ==
    [p EXCEPT !.invoked = Append(@, [stage |-> stage,
                                     all_errors |-> p.all_errors])]

\* The TypeError of a call that gives no argument for a parameter.
MissingArgument(callee, parameter) ==
    OtherError("TypeError", <<callee, "missing 1 required positional argument",
                              parameter>>)

\* What parse() returns: the tuple (ast, self.errors).
ParseResult(node, errs) == [cls |-> "tuple", items |-> <<node, errs>>]

\* Lines 124-135.  CodeGenerator() gives no argument for the parameter ir
\* of CodeGenerator.__init__: the call raises TypeError.
codegen_stage(p) ==
    StageFailure(Invoke(p, "code_generator"), "Code Generator failed",
                 MissingArgument("CodeGenerator.__init__", "ir"))

after_codegen(p) ==
    IF p.pc = "returned" THEN p
    ELSE [p EXCEPT !.pc = "returned", !.success = TRUE]

\* Lines 114-122.  Optimizer() gives no argument for the parameter ir_code
\* of Optimizer.__init__: the call raises TypeError.
optimizer_stage(p) ==
    StageFailure(Invoke(p, "optimizer"), "Optimizer failed",
                 MissingArgument("Optimizer.__init__", "ir_code"))

after_optimizer(p) ==
    IF p.pc = "returned" THEN p ELSE after_codegen(codegen_stage(p))

\* The classes IRGenerator.visit has a branch for.
IRNodeClasses ==
    {"Program", "VarDecl", "Assign", "If", "Block", "BinOp", "RelOp", "Number",
     "Id"}

\* Lines 104-112.  IRGenerator().generate(ast) is given the tuple parse()
\* returned: visit finds no branch for its class and raises TypeError.
ir_stage(p, tree) ==
    CASE tree.cls \notin IRNodeClasses ->
             StageFailure(Invoke(p, "ir_generator"), "IR Generator failed",
                          OtherError("TypeError",
                                     <<"Unknown node type", tree.cls>>))

after_ir(p) ==
    IF p.pc = "returned" THEN p ELSE after_optimizer(optimizer_stage(p))

\* after_semantic for an orchestrator that goes on to IR generation
\* whatever the earlier stages recorded.
after_semantic_ungated(p, tree) ==
    after_ir(ir_stage([p EXCEPT !.pc = "ir_generator"], tree))

\* Lines 97-102: the semantic stage has returned or failed; with any error
\* in all_errors the run stops here.
after_semantic(p, tree) ==
    IF p.pc = "returned" THEN p
    ELSE IF p.all_errors # <<>> THEN ReturnFailed(p)
    ELSE after_ir(ir_stage(p, tree))

\* Lines 82-97.  semantic_analyzer.analyze(ast) gives no argument for the
\* parameter errors of analyze(self, node, errors): the call raises
\* TypeError before analyze runs.
semantic_stage(p) ==
    StageFailure(Invoke(p, "semantic_analyzer"), "Semantic Analyzer failed",
                 MissingArgument("SemanticAnalyzer.analyze", "errors"))

\* Lines 66-71: the recovered syntax errors are added to all_errors.
syntax_errors_recorded(p, parser_errors) ==
    IF parser_errors # <<>>
    THEN LET all == p.all_errors \o Entries("Syntax Error", parser_errors)
         IN  [p EXCEPT !.all_errors = all,
                       !.results.errors = format_errors(all,
                           "COMPILATION CONTINUING WITH RECOVERED ERRORS")]
    ELSE p

\* Lines 63-135, from the return of parser.parse() on.
run_pipeline_tail(p, node, parser_errors) ==
    after_semantic(semantic_stage(syntax_errors_recorded(p, parser_errors)),
                   ParseResult(node, parser_errors))

\* Lines 48-54: the tokenizer reports errors; the run returns.
PipeLexFailed ==
    /\ pipe.pc = "lexer"
    /\ tokenize(source).errors # <<>>
    /\ pipe' = ReturnFailed([pipe EXCEPT !.all_errors =
                   @ \o Entries("Lexical Error", tokenize(source).errors)])
    /\ UNCHANGED <<backVars, parserVars, sem, symVars, source>>

\* Lines 48-52 and 62-63: no lexical error; the parser is built and
\* parse() is called.
PipeLexed ==
    /\ pipe.pc = "lexer"
    /\ tokenize(source).errors = <<>>
    /\ tokens' = tokenize(source).tokens
    /\ pos' = 0
    /\ errors' = <<>>
    /\ pstack' = <<ProgramFrame(<<>>)>>
    /\ pmode' = "loop"
    /\ retval' = None
    /\ ast' = None
    /\ pipe' = [Invoke(pipe, "parser") EXCEPT !.pc = "parser"]
    /\ UNCHANGED <<backVars, sem, symVars, source>>

\* Lines 77-80: an exception has left parse(); the run returns.
PipeParserFailed ==
    /\ pipe.pc = "parser"
    /\ pmode = "raised"
    /\ pipe' = StageFailure(pipe, "Parser failed", retval)
    /\ UNCHANGED <<backVars, parserVars, sem, symVars, source>>

\* Lines 63-135: parse() has returned; the rest of the run.
PipeParsed ==
    /\ pipe.pc = "parser"
    /\ pmode = "done"
    /\ pipe' = run_pipeline_tail(pipe, ast, errors)
    /\ UNCHANGED <<backVars, parserVars, sem, symVars, source>>

PipeSources == SampleSources \cup {SrcLexError} \cup EnumeratedSources

InitPipe ==
    /\ ParserIdle
    /\ sem = SemIdle
    /\ scopes = <<EmptyDict>>
    /\ sym_op = SymIdle
    /\ source \in PipeSources
    /\ pipe = [PipeIdle EXCEPT !.pc = "lexer"]
    /\ BackIdle

NextPipe ==
    \/ PipeLexFailed
    \/ PipeLexed
    \/ ParserStep
    \/ PipeParserFailed
    \/ PipeParsed

SpecPipe == InitPipe /\ [][NextPipe]_vars

----------------------------------------------------------------------------
(***************************************************************************)
(* Properties of the symbol table (SpecSym).                               *)
(***************************************************************************)
Innermost(sc) == sc[Len(sc)]

DeclaredOnlyOutside(sc, name) ==
    /\ name \notin DOMAIN Innermost(sc)
    /\ \E i \in 1..(Len(sc) - 1) : name \in DOMAIN sc[i]

\* C8: after any sequence of enter_scope, exit_scope and declare calls,
\* declare(name) raises the duplicate-declaration error exactly when name
\* was already a key of the innermost scope, and then changes nothing; it
\* never raises for a name bound only in an outer scope; when it succeeds
\* every outer scope is as it was, the innermost scope has gained exactly
\* the new binding, and lookup(name) returns the type just declared.
C8_DeclareRaisesOnlyInInnermostScope ==
    sym_op.op = "declare" =>
        LET before == sym_op.before
            name == sym_op.name
        IN  /\ (sym_op.exc # NoError) <=> (name \in DOMAIN Innermost(before))
            /\ sym_op.exc # NoError =>
                   /\ sym_op.exc.cls = "SemanticError"
                   /\ sym_op.exc.msg = "already declared in this scope"
                   /\ sym_op.exc.detail = <<name>>
                   /\ scopes = before
            /\ DeclaredOnlyOutside(before, name) => sym_op.exc = NoError
            /\ sym_op.exc = NoError =>
                   /\ Len(scopes) = Len(before)
                   /\ \A i \in 1..(Len(before) - 1) : scopes[i] = before[i]
                   /\ DOMAIN Innermost(scopes)
                          = DOMAIN Innermost(before) \cup {name}
                   /\ \A n \in DOMAIN Innermost(before) :
                          Innermost(scopes)[n] = Innermost(before)[n]
                   /\ lookup(scopes, name, 1).exc = NoError
                   /\ lookup(scopes, name, 1).value = sym_op.type

\* C8 happens: a declare that shadows an outer binding of another type has
\* succeeded, and the outer binding is still there.
C8_ShadowingDeclared ==
    /\ sym_op.op = "declare"
    /\ sym_op.exc = NoError
    /\ DeclaredOnlyOutside(sym_op.before, sym_op.name)
    /\ \E i \in 1..(Len(scopes) - 1) :
           /\ sym_op.name \in DOMAIN scopes[i]
           /\ scopes[i][sym_op.name] # sym_op.type

----------------------------------------------------------------------------
(***************************************************************************)
(* Properties of the parser and of the analyzer run on its AST (Spec).     *)
(***************************************************************************)
TokensOf(src) == tokenize(src).tokens

EOFToken == Token("EOF", "EOF", 1)

\* The steps in which an iteration of the loop of program() or block()
\* parses its declaration or statement.
StatementParsed ==
    ProgramDeclaration \/ IfStatement \/ BlockOpen \/ ExpressionStatement

\* C1: every iteration of the statement loops of program() and block()
\* consumes at least one token, on the error-recovery paths too (the loops
\* are entered only before EOF and, in block(), before the closing '}').
C1_EveryIterationConsumesAToken ==
    [][StatementParsed => pos' > pos]_vars

\* The token after the statement is a keyword or an identifier: its ';'
\* is missing.
LacksSemicolon(p) == Cur(tokens, p.pos).type \in {"KEYWORD", "ID"}

\* errs is before plus exactly one diagnostic, the "Missing ';'" one that
\* quotes the token tok.
OneMissingSemicolon(errs, before, what, tok) ==
    /\ Len(errs) = Len(before) + 1
    /\ SubSeq(errs, 1, Len(before)) = before
    /\ errs[Len(errs)].msg = "Missing ';' after " \o what
    /\ errs[Len(errs)].found = tok
    /\ errs[Len(errs)].line = tok.line

C4_StatementRecovery ==
    ExpressionStatement =>
        LET e == expression(tokens, Self)
        IN  (Ok(e) /\ LacksSemicolon(e.p)) =>
                /\ pos' = e.p.pos
                /\ OneMissingSemicolon(errors', e.p.errors, "statement",
                                       Cur(tokens, e.p.pos))
                /\ pmode' = "ret"
                /\ retval' = e.node
                /\ pstack' = pstack

C4_DeclarationRecovery ==
    ProgramDeclaration =>
        LET t == type_specifier(tokens, Self)
            d == declaration_loop(tokens, t.p, t.node, <<>>)
        IN  (Ok(t) /\ Ok(d) /\ LacksSemicolon(d.p)) =>
                /\ pos' = d.p.pos
                /\ OneMissingSemicolon(errors', d.p.errors, "declaration",
                                       Cur(tokens, d.p.pos))
                /\ pmode' = "loop"
                /\ pstack' = ReplaceTop(ProgramFrame(Top.children \o d.node))

\* The statement a single operand token makes.
Operand(tok) == IF tok.type = "NUMBER" THEN Number(tok) ELSE Variable(tok)

IdTokens == {Token("ID", "a", 1), Token("ID", "b", 1)}

IntToken == Token("KEYWORD", "int", 1)

SemicolonToken == Token("DELIM", ";", 1)

\* What parse() returns for two statements with the ';' between them left
\* out: both are children of the Program, one after the other.
C4_Siblings ==
    pmode = "done" =>
        /\ \A x \in IdTokens \cup {Token("NUMBER", "1", 1)}, y \in IdTokens :
               tokens = <<x, y, SemicolonToken, EOFToken>> =>
                   /\ ast.children = <<Operand(x), Variable(y)>>
                   /\ OneMissingSemicolon(errors, <<>>, "statement", y)
        /\ \A v \in IdTokens, y \in IdTokens :
               tokens = <<IntToken, v, y, EOFToken>> =>
                   /\ ast.children
                          = <<VarDecl(Type(IntToken), Variable(v), None),
                              Variable(y)>>
                   /\ OneMissingSemicolon(SubSeq(errors, 1, 1), <<>>,
                                          "declaration", y)
                   /\ OneMissingSemicolon(errors, SubSeq(errors, 1, 1),
                                          "statement", EOFToken)
        /\ tokens = TokensOf(SrcMissingSemiDecl) =>
               /\ ast.children
                      = <<VarDecl(Type(tokens[1]), Variable(tokens[2]), None),
                          VarDecl(Type(tokens[3]), Variable(tokens[4]), None)>>
               /\ OneMissingSemicolon(errors, <<>>, "declaration", tokens[3])
        /\ tokens = TokensOf(SrcMissingSemiKeyword) =>
               /\ ast.children
                      = <<Variable(tokens[1]),
                          If(Variable(tokens[4]), Variable(tokens[6]), None)>>
               /\ OneMissingSemicolon(errors, <<>>, "statement", tokens[2])

\* C4: when a declaration or an expression statement is followed by a
\* keyword or an identifier instead of its ';', the parser records exactly
\* one diagnostic for the omission, the "Missing ';'" one, consumes no
\* token while recovering, and returns the statement before and the
\* statement after the omission as consecutive entries of the enclosing
\* statement list.
C4_MissingSemicolonRecovery ==
    /\ []C4_Siblings
    /\ [][C4_StatementRecovery /\ C4_DeclarationRecovery]_vars

\* C4 happens: parse() has returned for "a b ;", with one diagnostic and
\* two children.
C4_RecoveredBothStatements ==
    /\ pmode = "done"
    /\ tokens = <<Token("ID", "a", 1), Token("ID", "b", 1), SemicolonToken,
                  EOFToken>>
    /\ Len(errors) = 1
    /\ errors[1].msg = "Missing ';' after statement"
    /\ Len(ast.children) = 2

\* C5: for the tokens the tokenizer produces from "a = 3;" and from
\* "b = a + 2;", parse() returns an empty list of diagnostics.
C5_ConformingTokensParseClean ==
    (pmode = "done" /\ tokens \in {TokensOf(SrcAssign), TokensOf(SrcArith)})
        => errors = <<>>

\* C6: a declaration inside a block, "{ int c; }", is parsed with no
\* diagnostic and is a VarDecl among the statements of the Block.
C6_DeclarationInBlockParses ==
    (pmode \in {"done", "raised"} /\ tokens = TokensOf(SrcBlockDecl)) =>
        /\ pmode = "done"
        /\ errors = <<>>
        /\ ast.children[1].cls = "Block"
        /\ \E i \in 1..Len(ast.children[1].statements) :
               ast.children[1].statements[i].cls = "VarDecl"

\* C7: no exception leaves parse(), whatever the token sequence.
C7_ParseNeverRaises == pmode # "raised"

IsSemanticError(e) == HasAttr(e, "cls") /\ e.cls = "SemanticError"

NoSemanticError(errs) == \A i \in 1..Len(errs) : ~IsSemanticError(errs[i])

\* C9: for "int a; int b; if (a > b) a = b;" (and the float / <= variant)
\* the analyzer, run on the AST parse() returned, finishes without a
\* semantic error and infers bool for the condition of the If.
C9_ComparisonConditionIsBool ==
    (sem.state # "idle"
         /\ tokens \in {TokensOf(SrcIfCompare), TokensOf(SrcIfCompareFloat)}) =>
        /\ sem.state = "returned"
        /\ NoSemanticError(sem.errors)
        /\ ast.children[3].cls = "If"
        /\ visit(ast.children[3].condition,
                 [scopes |-> sem.scopes, exc |-> NoError]).type = "bool"

HasTypeMismatch(errs, value_type, var_name, var_type) ==
    \E i \in 1..Len(errs) :
        /\ IsSemanticError(errs[i])
        /\ errs[i].msg = "Cannot assign type to variable of type"
        /\ errs[i].detail = <<value_type, var_name, var_type>>
        /\ errs[i].line = 1

\* C10: the analyzer records a type mismatch naming both types and the
\* line for "float x = 1;" and for "int a; float b; a = b;", and records
\* none for "int x = 1;".
C10_TypeMismatchRecorded ==
    sem.state # "idle" =>
        /\ tokens = TokensOf(SrcInitMismatch) =>
               /\ sem.state = "returned"
               /\ HasTypeMismatch(sem.errors, "int", "x", "float")
        /\ tokens = TokensOf(SrcAssignMismatch) =>
               /\ sem.state = "returned"
               /\ HasTypeMismatch(sem.errors, "float", "a", "int")
        /\ tokens = TokensOf(SrcInitSame) =>
               /\ sem.state = "returned"
               /\ NoSemanticError(sem.errors)

----------------------------------------------------------------------------
(***************************************************************************)
(* Properties of run_pipeline (SpecPipe).                                  *)
(***************************************************************************)
Stages == [i \in 1..Len(pipe.invoked) |-> pipe.invoked[i].stage]

\* C2: for "int a;", a source with no lexical, syntactic or semantic
\* error, the run has invoked the parser, the semantic analyzer, the IR
\* generator, the optimizer and the code generator in this order when it
\* returns, and it returns success with non-empty ir, optimized_ir and
\* final_code.
C2_CleanSourceCompiles ==
    (pipe.pc = "returned" /\ source = SrcDeclA) =>
        /\ pipe.success
        /\ Stages = <<"parser", "semantic_analyzer", "ir_generator",
                      "optimizer", "code_generator">>
        /\ pipe.results.ir # ""
        /\ pipe.results.optimized_ir # ""
        /\ pipe.results.final_code # ""

BackEndStages == {"ir_generator", "optimizer", "code_generator"}

DiagnosticKinds == {"Lexical Error", "Syntax Error", "Semantic Error"}

DiagnosticRecorded ==
    \E i \in 1..Len(pipe.all_errors) : pipe.all_errors[i].kind \in DiagnosticKinds

\* C3: the IR generator, the optimizer and the code generator are invoked
\* only while all_errors is empty, and a run in which a lexical, syntactic
\* or semantic error was recorded returns success = False with the ir,
\* optimized_ir and final_code results still empty.
C3_BackEndGatedOnErrors ==
    /\ \A i \in 1..Len(pipe.invoked) :
           pipe.invoked[i].stage \in BackEndStages =>
               pipe.invoked[i].all_errors = <<>>
    /\ (pipe.pc = "returned" /\ DiagnosticRecorded) =>
           /\ ~pipe.success
           /\ pipe.results.ir = ""
           /\ pipe.results.optimized_ir = ""
           /\ pipe.results.final_code = ""

\* C3 happens: a run that recorded a recovered syntax error and went on to
\* the semantic stage has returned.
C3_ReturnedWithSyntaxError ==
    /\ pipe.pc = "returned"
    /\ \E i \in 1..Len(pipe.all_errors) : pipe.all_errors[i].kind = "Syntax Error"
    /\ \E i \in 1..Len(pipe.invoked) :
           pipe.invoked[i].stage = "semantic_analyzer"

----------------------------------------------------------------------------
(***************************************************************************)
(* C11.  The lowering of if/else by IRGenerator.                          *)
(***************************************************************************)
\* The If nodes with an else branch below node, in a tree the parser built.
RECURSIVE IfElseNodes(_)
IfElseNodes(node) ==
    IF node = None THEN {}
    ELSE IF node.cls = "Program"
    THEN UNION {IfElseNodes(node.children[i]) : i \in DOMAIN node.children}
    ELSE IF node.cls = "Block"
    THEN UNION {IfElseNodes(node.statements[i]) : i \in DOMAIN node.statements}
    ELSE IF node.cls = "If"
    THEN (IF node.else_block # None THEN {node} ELSE {})
         \cup IfElseNodes(node.if_block) \cup IfElseNodes(node.else_block)
    ELSE {}

LabelAt(ir, i, label) == ir[i] = <<"LABEL", label>>

\* label is defined exactly once in ir, and after index i
DefinedOnceAfter(ir, i, label) ==
    /\ \E d \in DOMAIN ir : d > i /\ LabelAt(ir, d, label)
    /\ \A d, e \in DOMAIN ir :
            LabelAt(ir, d, label) /\ LabelAt(ir, e, label) => d = e

\* The line at index i is IF_FALSE c GOTO l: c is a literal or the
\* destination of the line before, and l is defined once, later.
ConditionalJumpLowered(ir, i) ==
    /\ \/ \A m \in DOMAIN ir : ir[m][1] # ir[i][2]
       \/ i > 1 /\ ir[i - 1][1] = ir[i][2] /\ ir[i - 1][2] = "="
    /\ DefinedOnceAfter(ir, i, ir[i][4])

\* The line at index j is GOTO end: the next line defines the else label
\* that a conditional jump before j targets, and end is defined once, later.
JumpLowered(ir, j) ==
    /\ j + 1 \in DOMAIN ir
    /\ ir[j + 1][1] = "LABEL" /\ ir[j + 1][2] # ir[j][2]
    /\ \E i \in 1..(j - 1) :
            ir[i][1] = "IF_FALSE" /\ ir[i][4] = ir[j + 1][2]
    /\ DefinedOnceAfter(ir, j + 1, ir[j][2])

IfElseLowering(ir) ==
    /\ \A i \in DOMAIN ir : ir[i][1] = "IF_FALSE" => ConditionalJumpLowered(ir, i)
    /\ \A j \in DOMAIN ir : ir[j][1] = "GOTO" => JumpLowered(ir, j)
    /\ \A d, e \in DOMAIN ir :
            ir[d][1] = "LABEL" /\ ir[e][1] = "LABEL" /\ d # e
                => ir[d][2] # ir[e][2]

\* C11: whenever IRGenerator().generate has been called on a tree the
\* parser returned that holds an if/else, it returned an IR in which each
\* conditional jump follows its condition's compare line and targets the
\* else label, each GOTO is followed by that else label and targets the end
\* label, all labels are pairwise distinct, each is defined exactly once,
\* and every jump targets a label defined later.
C11_IfElseLowered ==
    (irgen.state # "idle" /\ IfElseNodes(ast) # {})
        => /\ irgen.state = "returned"
           /\ IfElseLowering(irgen.ir_code)
           /\ Cardinality({j \in DOMAIN irgen.ir_code :
                                irgen.ir_code[j][1] = "GOTO"})
                  = Cardinality(IfElseNodes(ast))

----------------------------------------------------------------------------
(***************************************************************************)
(* C12, C13, C14.  Constant folding.                                       *)
(***************************************************************************)
ArithmeticOps == {"ADD", "SUB", "MUL", "DIV"}

\* text is an integer literal of the language: one or more digits
IntegerLiteral(text) ==
    text # <<>> /\ \A i \in DOMAIN text : IsDigit(text[i])

\* text is a number literal of the language: digits, optionally followed by
\* '.' and more digits
NumberLiteral(text) ==
    /\ text # <<>> /\ IsDigit(text[1]) /\ IsDigit(text[Len(text)])
    /\ \A i \in DOMAIN text : IsDigit(text[i]) \/ text[i] = "."
    /\ Cardinality({i \in DOMAIN text : text[i] = "."}) <= 1

OfNumberLiterals(ins) ==
    ins[1] \in ArithmeticOps /\ NumberLiteral(ins[2]) /\ NumberLiteral(ins[3])

OfIntegerLiterals(ins) ==
    ins[1] \in ArithmeticOps /\ IntegerLiteral(ins[2]) /\ IntegerLiteral(ins[3])

\* C12: every call of optimize returns a sequence as long as the one it
\* was given in which every instruction that is not an ADD, SUB, MUL or DIV
\* of two number literals stands unchanged at its position; in particular
\* an instruction with a variable name for an operand is not folded.
C12_OnlyLiteralOperationsFolded ==
    opt.calls >= 1
        => /\ opt.state = "returned"
           /\ Len(opt.ir_code) = Len(opt.given)
           /\ \A i \in DOMAIN opt.given :
                ~OfNumberLiterals(opt.given[i])
                    => opt.ir_code[i] = opt.given[i]

\* The value of the digits ds[1..k], read as a decimal numeral.
RECURSIVE DigitsValue(_, _)
DigitsValue(ds, k) ==
    IF k = 0 THEN 0
    ELSE 10 * DigitsValue(ds, k - 1)
            + (CHOOSE v \in 0..9 : DigitChars[v + 1] = ds[k])

\* The number a signed decimal text denotes, as n / 10^places.
Denoted(text) ==
    LET ds == SelectSeq(text, IsDigit)
        dots == {i \in DOMAIN text : text[i] = "."}
        mag == DigitsValue(ds, Len(ds))
    IN  [n |-> IF text[1] = "-" THEN -mag ELSE mag,
         places |-> IF dots = {} THEN 0
                    ELSE Len(text) - (CHOOSE i \in dots : TRUE)]

RECURSIVE TenTo(_)
TenTo(k) == IF k = 0 THEN 1 ELSE 10 * TenTo(k - 1)

\* text is what the claim asks of folding a <op> b for integers a and b: the
\* integral result without a fractional part, '0' for a division by zero,
\* and otherwise the decimal text of the quotient.
FoldedText(op, a, b, text) ==
    LET x == Denoted(text)
        plain == x.places = 0 /\ \A i \in DOMAIN text : text[i] # "."
    IN  IF op = "ADD" THEN plain /\ x.n = a + b
        ELSE IF op = "SUB" THEN plain /\ x.n = a - b
        ELSE IF op = "MUL" THEN plain /\ x.n = a * b
        ELSE IF b = 0 THEN text = <<"0">>
        ELSE IF a % b = 0 THEN plain /\ x.n * b = a
        ELSE x.places > 0 /\ x.n * b = a * TenTo(x.places)

C14_OptimizeIdempotent ==
    /\ opt.calls >= 2 => opt.state = "returned" /\ opt.ir_code = opt.given
    /\ (opt.calls >= 1 /\ opt.state = "returned")
            => \A i \in DOMAIN opt.given :
                    opt.given[i][1] = "ASSIGN"
                        => opt.ir_code[i] = opt.given[i]

\* The first call folded an instruction and the second changed nothing.
C14_FoldedThenUnchanged ==
    /\ opt.calls = 2 /\ opt.state = "returned"
    /\ opt.arg # opt.ir_code
    /\ opt.ir_code = opt.given

----------------------------------------------------------------------------
(***************************************************************************)
(* C15 .. C19.  The code generator.                                        *)
(***************************************************************************)
\* The words a line needs for its opcode to be processed.
Arity(op) ==
    CASE op \in {"DECLARE", "ASSIGN", "CAST_TO_FLOAT"} -> 3
      [] op \in {"ADD", "SUB", "MUL", "DIV", "COMPARE"} -> 5
      [] op \in {"JUMP", "JUMP_IF_FALSE", "LABEL"} -> 2
      [] OTHER -> 1

TooShort(parts) == parts # <<>> /\ Len(parts) < Arity(parts[1])

\* The inline comment for a line whose processing failed with detail.
ErrorComment(parts, detail) ==
    "\n    ; !!! ERROR GENERATING CODE FOR: '" \o LineText(parts) \o "' -> "
        \o detail \o " !!!\n"

Prologue ==
    <<"section .text", "global _start", "_start:", "    push ebp",
      "    mov ebp, esp", "    ; --- Begin user code ---">>

Epilogue ==
    <<"    ; --- End of user code ---", "    mov esp, ebp", "    pop ebp",
      "    mov eax, 1", "    xor ebx, ebx", "    int 0x80">>

Contains(lines, part) ==
    \E k \in 0..(Len(lines) - Len(part)) :
        SubSeq(lines, k + 1, k + Len(part)) = part

\* C15: generate never aborts.  It returns, its assembly begins with the
\* prologue and holds the epilogue, and for every line that lacks operands
\* the assembly holds the error comment naming that line.
C15_GenerateNeverAborts ==
    /\ cg.state # "raised"
    /\ cg.state = "returned"
        => /\ SubSeq(cg.assembly, 1, Len(Prologue)) = Prologue
           /\ Contains(cg.assembly, Epilogue)
           /\ \A k \in DOMAIN cg.ir :
                TooShort(cg.ir[k])
                    => Contains(cg.assembly,
                                <<ErrorComment(cg.ir[k],
                                               "list index out of range")>>)

\* The main loop has just processed line k.
Processed(k) == cg.state = "running" /\ k >= 1 /\ cg.i = k + 1

LastLine == cg.text_section[Len(cg.text_section)]

\* the text of the conditional jump to label that follows a compare of
\* operator op, with mnemonic jump_op
JumpLine(jump_op, label, op) ==
    "    " \o jump_op \o " " \o label \o " ; Jump if " \o op \o " was false"

SlotsWellFormed ==
    LET table == cg.symbol_table
    IN  /\ \A name \in DOMAIN table :
                table[name].offset < 0 /\ table[name].offset % 4 = 0
        /\ \A m, n \in DOMAIN table :
                m # n => table[m].offset # table[n].offset
        /\ cg.current_offset = -4 * Cardinality(DOMAIN table)

\* A step leaves every variable of the symbol table at its offset.
OffsetsKept ==
    \A name \in DOMAIN cg.symbol_table :
        cg'.symbol_table[name].offset = cg.symbol_table[name].offset

\* C17: after any prefix of the IR every offset is a negative multiple of
\* 4, different names have different offsets, current_offset is -4 times
\* the number of slots allocated, and no step moves a variable from the
\* offset it first received.
C17_OffsetsStable == [](SlotsWellFormed) /\ [][OffsetsKept]_vars

\* The variable names of the enumerated lines.
VariableNames == {"a", "b", "x", "t1"}

\* The operands of a line that the generator meets: the destination and
\* source of an ASSIGN or a cast, the destination and sources of a typed
\* arithmetic line, the sources of a typed compare.
OperandsMet(parts) ==
    IF TooShort(parts) THEN {}
    ELSE LET op == parts[1]
         IN  IF op = "ASSIGN" THEN {parts[2]}
             ELSE IF op = "CAST_TO_FLOAT" THEN {parts[2], parts[3]}
             ELSE IF op \in ArithmeticOps /\ parts[2] \in Types
             THEN {parts[3], parts[4], parts[5]} \cap VariableNames
             ELSE IF op = "COMPARE" /\ parts[2] \in Types
             THEN {parts[3], parts[5]} \cap VariableNames
             ELSE {}

\* C18: a step of the main loop on a line with an operand that no DECLARE
\* preceded gives that operand a slot of type 'unknown' and emits no error
\* comment for the line.
C18_UndeclaredOperandAllocated ==
    [][\A name \in VariableNames :
            (InLoop /\ Parts # <<>> /\ name \in OperandsMet(Parts)
                    /\ name \notin DOMAIN cg.symbol_table)
                => /\ name \in DOMAIN cg'.symbol_table
                   /\ cg'.symbol_table[name].type = "unknown"
                   /\ cg'.text_section[Len(cg'.text_section)]
                        # ErrorComment(Parts, "'" \o name \o "'")]_vars

\* The values the compared operands range over.
CompareValues == {-1, 0, 1}

Holds(op, v1, v2) ==
    CASE op = "==" -> v1 = v2 [] op = "!=" -> v1 # v2
      [] op = "<" -> v1 < v2 [] op = ">" -> v1 > v2
      [] op = "<=" -> v1 <= v2 [] op = ">=" -> v1 >= v2

\* The flags after cmp x, y (x - y on two's-complement words): zero, signed
\* less (SF # OF) and unsigned below (CF).
IntFlags(x, y) ==
    [zf |-> x = y, less |-> x < y,
     cf |-> IF (x < 0) = (y < 0) THEN x < y ELSE y < 0]

\* The flags after fcomip st(0), st(i) on ordered values: ZF when equal, CF
\* when st(0) < st(i).
FloatFlags(st0, sti) == [zf |-> st0 = sti, less |-> FALSE, cf |-> st0 < sti]

\* The flags the code emitted for COMPARE leaves: for int, eax holds src1
\* and ebx src2 and the code compares eax with ebx; for float, src1 is
\* pushed first, so st(1) holds src1 and st(0) src2, and the code compares
\* st(0) with st(1).
FlagsAfterCompare(type, src1, src2) ==
    IF type = "int" THEN IntFlags(src1, src2) ELSE FloatFlags(src2, src1)

Mnemonics == {"je", "jne", "jl", "jle", "jg", "jge", "jb", "jbe", "ja", "jae"}

Taken(jump_op, f) ==
    CASE jump_op = "je" -> f.zf [] jump_op = "jne" -> ~f.zf
      [] jump_op = "jl" -> f.less [] jump_op = "jle" -> f.less \/ f.zf
      [] jump_op = "jg" -> ~f.less /\ ~f.zf [] jump_op = "jge" -> ~f.less
      [] jump_op = "jb" -> f.cf [] jump_op = "jbe" -> f.cf \/ f.zf
      [] jump_op = "ja" -> ~f.cf /\ ~f.zf [] jump_op = "jae" -> ~f.cf

\* The mnemonics that branch exactly when src1 op src2 is false.
BranchesWhenFalse(type, op) ==
    {m \in Mnemonics :
        \A v1, v2 \in CompareValues :
            Taken(m, FlagsAfterCompare(type, v1, v2)) <=> ~Holds(op, v1, v2)}

\* C19: the branch emitted for a conditional jump that follows a COMPARE of
\* type int or float with one of the six operators is taken exactly when
\* src1 op src2 is false, for the flags that COMPARE's code leaves.
C19_BranchTakenWhenFalse ==
    \A k \in DOMAIN cg.ir :
        (/\ Processed(k) /\ k > 1
         /\ Len(cg.ir[k]) = 2 /\ cg.ir[k][1] = "JUMP_IF_FALSE"
         /\ cg.ir[k - 1] \in CompareLines)
            => LastLine \in {JumpLine(m, cg.ir[k][2], cg.ir[k - 1][4]) :
                                m \in BranchesWhenFalse(cg.ir[k - 1][2],
                                                        cg.ir[k - 1][4])}

----------------------------------------------------------------------------
(***************************************************************************)
(* C20.  The scope stack (SpecSym).                                        *)
(***************************************************************************)
\* Nodes as visit_VarDecl and visit_Block read them.
DeclNode(name, type) ==
    [cls |-> "VarDecl", var_name |-> [value |-> name, line |-> 1],
     var_type |-> [value |-> type], value |-> None]

BlockNode(children) == [cls |-> "Block", children |-> children]

BlockChildren ==
    {DeclNode(name, type) : name \in Names, type \in Types}
        \cup {BlockNode(<<>>), BlockNode(<<DeclNode("a", "float")>>)}

SampleBlocks ==
    {BlockNode(children) :
        children \in UNION {[1..n -> BlockChildren] : n \in 0..2}}

\* The names visit_Block(node) declares in the scope it enters.
DeclaredIn(node) ==
    {node.children[i].var_name.value :
        i \in {j \in DOMAIN node.children : node.children[j].cls = "VarDecl"}}

\* lookup gives the same answer for every name in both stacks.
SameBindings(sc1, sc2) ==
    \A name \in Names :
        /\ lookup(sc1, name, 1).exc = lookup(sc2, name, 1).exc
        /\ lookup(sc1, name, 1).value = lookup(sc2, name, 1).value

\* visit_Block(node) from the scopes sc, when it completes, leaves sc.
BlockVisitRestores(sc, node) ==
    LET r == visit_Block(node, [scopes |-> sc, exc |-> NoError])
    IN  ~Failed(r)
            => /\ r.st.scopes = sc
               /\ SameBindings(r.st.scopes, sc)
               /\ \A name \in DeclaredIn(node) :
                     lookup(sc, name, 1).exc # NoError
                         => lookup(r.st.scopes, name, 1).exc # NoError

\* C20: after any sequence of SymbolTable operations the scope stack holds
\* at least one scope; no operation removes the global scope or a binding
\* of it, and exit_scope at depth 1 changes nothing; exit_scope at a greater
\* depth removes exactly the innermost scope, and enter_scope, declare and
\* lookup leave every outer scope as it was; a visit of a Block that
\* completes leaves the stack it found, so lookup answers as before the
\* visit and the names declared only inside the block are not found.
C20_ScopeStackBalanced ==
    /\ Len(scopes) >= 1
    /\ sym_op.op # "idle" =>
        LET before == sym_op.before
        IN  /\ DOMAIN before[1] \subseteq DOMAIN scopes[1]
            /\ \A name \in DOMAIN before[1] : scopes[1][name] = before[1][name]
            /\ sym_op.op = "exit_scope" =>
                   IF Len(before) = 1 THEN scopes = before
                   ELSE scopes = SubSeq(before, 1, Len(before) - 1)
            /\ sym_op.op = "enter_scope" => scopes = Append(before, EmptyDict)
            /\ sym_op.op \in {"declare", "lookup"} =>
                   /\ Len(scopes) = Len(before)
                   /\ \A i \in 1..(Len(before) - 1) : scopes[i] = before[i]
    /\ \A node \in SampleBlocks : BlockVisitRestores(scopes, node)

\* C20 happens: exit_scope has just closed a scope in which a name was
\* declared that the remaining scopes do not bind, the global scope holds a
\* binding, and from here a Block that declares an unbound name is visited
\* to completion.
C20_BlockScopeClosed ==
    /\ sym_op.op = "exit_scope"
    /\ Len(sym_op.before) > 1
    /\ scopes[1] # EmptyDict
    /\ \E name \in DOMAIN Innermost(sym_op.before) :
           lookup(scopes, name, 1).exc # NoError
    /\ \E node \in SampleBlocks :
           /\ ~Failed(visit_Block(node, [scopes |-> scopes, exc |-> NoError]))
           /\ \E name \in DeclaredIn(node) :
                  lookup(scopes, name, 1).exc # NoError

----------------------------------------------------------------------------
(***************************************************************************)
(* C21, C22.  The analyzer's diagnostics (Spec).                           *)
(***************************************************************************)
\* node is an If whose condition is a literal, an identifier or an
\* arithmetic expression.
NonRelationalIf(node) ==
    /\ node.cls = "If"
    /\ \/ node.condition.cls \in {"Number", "Variable", "Id"}
       \/ /\ node.condition.cls = "BinOp"
          /\ node.condition.op.value \notin RelOps

HasNonBooleanCondition(errs) ==
    \E i \in 1..Len(errs) :
        /\ IsSemanticError(errs[i])
        /\ errs[i].msg = "If condition must be a boolean expression"

\* C21: when the first statement of the program is an If whose condition
\* is not a relational comparison, analyze returns and the diagnostics
\* hold the non-boolean-condition error.
C21_NonBooleanConditionRecorded ==
    (/\ sem.state # "idle"
     /\ ast.cls = "Program"
     /\ ast.children # <<>>
     /\ NonRelationalIf(ast.children[1]))
        => /\ sem.state = "returned"
           /\ HasNonBooleanCondition(sem.errors)

(***************************************************************************)
(* SpecSem: analyze run on a Program built of the node classes and         *)
(* attributes the analyzer reads.                                          *)
(***************************************************************************)
NumberNode(value) == [cls |-> "Number", value |-> value]

IdNode(name) == [cls |-> "Id", value |-> name, line |-> 1]

OpNode(cls, left, op, right) ==
    [cls |-> cls, left |-> left, op |-> [value |-> op, line |-> 1],
     right |-> right]

AssignNode(name, value) ==
    [cls |-> "Assign", var_name |-> [value |-> name, line |-> 1],
     value |-> value]

IfNode(condition, if_block, else_block) ==
    [cls |-> "If", condition |-> condition, if_block |-> if_block,
     else_block |-> else_block]

ProgramNode(children) == [cls |-> "Program", children |-> children]

SemStatements ==
    {DeclNode("a", "int"), DeclNode("b", "float"),
     AssignNode("a", NumberNode("1")), AssignNode("a", NumberNode("1.5")),
     IfNode(OpNode("RelOp", IdNode("a"), ">", NumberNode("1")),
            BlockNode(<<DeclNode("b", "int")>>), None),
     IfNode(OpNode("BinOp", NumberNode("1"), "+", NumberNode("2")),
            BlockNode(<<>>), None),
     BlockNode(<<DeclNode("a", "float"), AssignNode("b", NumberNode("1"))>>)}

SemPrograms ==
    {ProgramNode(children) :
        children \in UNION {[1..n -> SemStatements] : n \in 0..MaxStatements}}

InitSem ==
    /\ tokens = <<>>
    /\ pos = 0
    /\ errors = <<>>
    /\ pstack = <<>>
    /\ pmode = "done"
    /\ retval = None
    /\ ast \in SemPrograms
    /\ sem = SemIdle
    /\ scopes = <<EmptyDict>>
    /\ sym_op = SymIdle
    /\ source = <<>>
    /\ pipe = PipeIdle
    /\ BackIdle

NextSem == Analyze

SpecSem == InitSem /\ [][NextSem]_vars

\* analyze on the first k statements of the program.
AnalyzedPrefix(k) == analyze(ProgramNode(SubSeq(ast.children, 1, k)), <<>>)

\* The first statement at which the walk meets a semantic error, 0 when
\* there is none.
FirstError ==
    LET bad == {k \in DOMAIN ast.children : AnalyzedPrefix(k).errors # <<>>}
    IN  IF bad = {} THEN 0 ELSE CHOOSE k \in bad : \A j \in bad : k <= j

\* C22: analyze appends at most one diagnostic, a semantic error; when it
\* appends one, the diagnostics and the symbol table are those of the
\* program cut after the first erroneous statement, so no later statement
\* was visited, declared or type-checked.
C22_FirstSemanticErrorEndsWalk ==
    sem.state # "idle" =>
        /\ sem.state = "returned"
        /\ Len(sem.errors) <= 1
        /\ \A i \in 1..Len(sem.errors) : IsSemanticError(sem.errors[i])
        /\ Len(sem.errors) = 1 <=> FirstError > 0
        /\ FirstError > 0 =>
               /\ sem.errors = AnalyzedPrefix(FirstError).errors
               /\ sem.scopes = AnalyzedPrefix(FirstError).scopes

\* C22 happens: analyze has returned with one diagnostic, and the statement
\* after the erroneous one is a declaration whose name the symbol table
\* does not hold, or a statement that has a semantic error of its own.
C22_WalkEndedBeforeLaterStatement ==
    /\ sem.state = "returned"
    /\ Len(sem.errors) = 1
    /\ FirstError < Len(ast.children)
    /\ LET next == ast.children[FirstError + 1]
       IN  \/ /\ next.cls = "VarDecl"
              /\ lookup(sem.scopes, next.var_name.value, 1).exc # NoError
           \/ analyze(ProgramNode(<<next>>), <<>>).errors # <<>>

----------------------------------------------------------------------------
(***************************************************************************)
(* C23.  Diagnostics of declaration (Spec).                                *)
(***************************************************************************)
\* toks is one declaration run: a type keyword, then identifiers and
\* commas, then one ';' and EOF.
DeclarationRun(toks) ==
    /\ Len(toks) >= 3
    /\ toks[1].type = "KEYWORD" /\ toks[1].value \in {"int", "float"}
    /\ toks[Len(toks)].type = "EOF"
    /\ toks[Len(toks) - 1] = SemicolonToken
    /\ \A i \in 2..(Len(toks) - 2) :
           toks[i].type = "ID" \/ (toks[i].type = "DELIM" /\ toks[i].value = ",")

\* The run is type_specifier ID (',' ID)* ';'.
ConformingDeclaration(toks) ==
    /\ DeclarationRun(toks)
    /\ Len(toks) % 2 = 0
    /\ \A i \in 2..(Len(toks) - 2) :
           IF i % 2 = 0 THEN toks[i].type = "ID" ELSE toks[i].value = ","

\* C23: a declaration run that is not type_specifier ID (',' ID)* ';',
\* such as "int ;" and "int a, ;", is parsed with at least one diagnostic.
C23_MalformedDeclarationDiagnosed ==
    (pmode \in {"done", "raised"}
        /\ DeclarationRun(tokens) /\ ~ConformingDeclaration(tokens))
            => pmode = "done" /\ errors # <<>>

----------------------------------------------------------------------------
(***************************************************************************)
(* C24.  Temporaries and labels of the IR generator (Spec).                *)
(***************************************************************************)
\* The names the lines of ir_code define: the temporary of each operator
\* line, in order, and the label of each LABEL line.
TempsOf(ir_code) ==
    LET IsOperatorLine(line) == Len(line) = 5 /\ line[2] = "="
        lines == SelectSeq(ir_code, IsOperatorLine)
    IN  [j \in DOMAIN lines |-> lines[j][1]]

LabelsOf(ir_code) ==
    LET IsLabelLine(line) == Len(line) = 2 /\ line[1] = "LABEL"
        lines == SelectSeq(ir_code, IsLabelLine)
    IN  [j \in DOMAIN lines |-> lines[j][2]]

\* names are prefix(first + 1), prefix(first + 2), ... each once, the
\* temporaries in this order.
NumberedFrom(first, temps, labels) ==
    /\ \A j \in DOMAIN temps : temps[j] = "t" \o ToString(first.temp_count + j)
    /\ {labels[j] : j \in DOMAIN labels}
           = {"L" \o ToString(first.label_count + j) : j \in DOMAIN labels}

\* C24: the IR a generate call returns names its temporaries t1, t2, ...
\* in the order the operator nodes were visited and its labels L1, L2, ...,
\* each name once, in every call.
C24_NamesNumberedFromOne ==
    irgen.state = "returned"
        => NumberedFrom([temp_count |-> 0, label_count |-> 0],
                        TempsOf(irgen.ir_code), LabelsOf(irgen.ir_code))

----------------------------------------------------------------------------
(***************************************************************************)
(* C25.  Literals and the symbol table of the code generator (SpecGen).    *)
(***************************************************************************)
\* The text of an integer or float literal.
LiteralText(word) == is_int_literal(word) \/ is_float_literal(word)

\* C25: at every point of code generation the names of the symbol table
\* are variable names: no integer or float literal has a frame slot.
C25_NoSlotForLiteral ==
    \A name \in DOMAIN cg.symbol_table : ~LiteralText(name)

=============================================================================
